---- MODULE Spec2Model ----
(***************************************************************************)
(* Model of the service agent's orchestration core:                        *)
(*   agent/models.py          Service, ServiceStatus, ServiceCapability    *)
(*   agent/discovery.py       ServiceDiscovery (registry, scan, refresh)   *)
(*   agent/resource_monitor.py  ResourceMonitor.check_resources_available  *)
(*   agent/service_manager.py ServiceManager (start/stop/restart/health)   *)
(*                                                                         *)
(* Handlers are coroutines of one asyncio event loop: the code between two *)
(* awaits runs without any other handler in between.  "loop" names the     *)
(* call that is inside such a section and still has steps to take; child   *)
(* processes are OS processes and may exit at any moment.                  *)
(***************************************************************************)
EXTENDS Integers, Sequences, FiniteSets, TLC

\* ------------------------------------------------------------------------
\* Bounds of the model
\* ------------------------------------------------------------------------
\* number of child processes the agent spawns in one behaviour
MaxSpawns == 2
\* number of unsuccessful probes after which the 60 seconds of the readiness
\* wait have elapsed (each iteration sleeps one second after its GET)
MaxPolls == 2
\* number of output lines captured into one log buffer
MaxLines == 1002
\* number of characters of a folder name given to the sanitizer
MaxNameLen == 4
\* the lines in a log buffer that is read, and the longest tail asked for
MaxBuffered == 6
MaxTail == MaxBuffered + 1

\* ------------------------------------------------------------------------
\* Program constants
\* ------------------------------------------------------------------------
RamReserveGb == 4
VramReserveGb == 2
\* the length beyond which the log buffer is trimmed, and what is kept
LogMax == 1000
LogKeep == 500
\* PortRangeSettings: the machine's port ranges, and the range of any other
\* kind of port
ApiPortMin == 8100
ApiPortMax == 8299
UiPortMin == 7800
UiPortMax == 7999
OtherPortMin == 8000
OtherPortMax == 9000

None == "None"
NoProc == 0
NoTime == 0
NoPorts == [k \in {} |-> 0]
NoEnv == [v \in {} |-> <<>>]

Ids == {"a"}

DISCOVERED == "discovered"
READY == "ready"
STARTING == "starting"
RUNNING == "running"
STOPPING == "stopping"
STOPPED == "stopped"
FAILED == "failed"
ERROR == "error"
ServiceStatus ==
    {DISCOVERED, READY, STARTING, RUNNING, STOPPING, STOPPED, FAILED, ERROR}

\* ------------------------------------------------------------------------
\* Text: a string is a sequence of one-character strings
\* ------------------------------------------------------------------------
Digits == <<"0", "1", "2", "3", "4", "5", "6", "7", "8", "9">>
IsDigit(c) == \E i \in 1..10 : Digits[i] = c
DigitVal(c) == (CHOOSE i \in 1..10 : Digits[i] = c) - 1

RECURSIVE LStrip(_, _)
LStrip(s, drop) ==
    IF s # <<>> /\ Head(s) \in drop THEN LStrip(Tail(s), drop) ELSE s

RECURSIVE RStrip(_, _)
RStrip(s, drop) ==
    IF s # <<>> /\ s[Len(s)] \in drop
    THEN RStrip(SubSeq(s, 1, Len(s) - 1), drop)
    ELSE s

\* str.strip() and str.strip(chars)
Strip(s) == RStrip(LStrip(s, {" ", "\t"}), {" ", "\t"})
StripChars(s, drop) == RStrip(LStrip(s, drop), drop)

Contains(s, c) == \E i \in 1..Len(s) : s[i] = c
IndexOf(s, c) == CHOOSE i \in 1..Len(s) : s[i] = c /\ \A j \in 1..(i - 1) : s[j] # c

\* str.partition("="): the text before and after the first "="
PartitionKey(s) == SubSeq(s, 1, IndexOf(s, "=") - 1)
PartitionValue(s) == SubSeq(s, IndexOf(s, "=") + 1, Len(s))

\* int(text) on the texts of the model: decimal digits, ValueError otherwise
IsInt(s) == s # <<>> /\ \A i \in 1..Len(s) : IsDigit(s[i])
RECURSIVE ParseInt(_)
ParseInt(s) ==
    IF s = <<>> THEN 0
    ELSE 10 * ParseInt(SubSeq(s, 1, Len(s) - 1)) + DigitVal(s[Len(s)])

\* ------------------------------------------------------------------------
\* Capability manifests (ServiceCapability, PortConfig)
\* ------------------------------------------------------------------------
ApiVar == <<"A", "P", "I", "_", "P", "O", "R", "T">>
UiVar == <<"U", "I", "_", "P", "O", "R", "T">>
NoVar == <<>>

PortConfig(default, env_var) == [default |-> default, env_var |-> env_var]

ApiPortKey == [k \in {"api"} |-> PortConfig(8000, ApiVar)]
UiPortKey == [k \in {"ui"} |-> PortConfig(8001, NoVar)]
BothPortKeys ==
    [k \in {"api", "ui"} |->
        IF k = "api" THEN PortConfig(8000, ApiVar) ELSE PortConfig(8001, UiVar)]

ServiceCapability(health, ports, ram, vram, gpu) ==
    [health_check_path |-> health, ports |-> ports,
     min_ram_gb |-> ram, min_vram_gb |-> vram, gpu_required |-> gpu]

CapNames == {"web", "panel", "train"}
Cap(n) ==
    CASE n = "web" -> ServiceCapability("/health", BothPortKeys, 0, 0, FALSE)
      [] n = "panel" -> ServiceCapability("/health", UiPortKey, 0, 0, FALSE)
      [] n = "train" -> ServiceCapability(None, ApiPortKey, 8, 8, TRUE)

\* what a CAPABILITY.yaml on disk can be
Manifests == CapNames \cup {"absent", "malformed"}

\* ------------------------------------------------------------------------
\* Environment files (.env): sequences of lines
\* ------------------------------------------------------------------------
NoEnvFile == <<>>
\* a comment, a port that a later line sets again, a blank line, quoted values
EnvWithPorts ==
    << <<"#", " ", "p", "o", "r", "t", "s">>,
       ApiVar \o <<"=", "8", "1", "0", "0">>,
       <<" ", " ">>,
       ApiVar \o <<"=", "\"", "8", "1", "5", "0", "\"">>,
       UiVar \o <<" ", "=", " ", "'", "8", "2", "0", "0", "'">> >>
\* a value that is no integer, an empty line, a line without "="
EnvWithJunk ==
    << ApiVar \o <<"=", "a", "b", "c">>,
       <<>>,
       UiVar >>
EnvFiles == {NoEnvFile, EnvWithPorts, EnvWithJunk}

\* the key=value pairs of the lines up to line n, later lines overwriting
\* earlier ones: a function from keys to values
RECURSIVE ParseEnvLines(_, _)
ParseEnvLines(lines, n) ==
    IF n = 0 THEN [k \in {} |-> <<>>]
    ELSE LET prev == ParseEnvLines(lines, n - 1)
             line == Strip(lines[n])
         IN  IF line = <<>> \/ Head(line) = "#" THEN prev
             ELSE IF Contains(line, "=")
             THEN LET key == Strip(PartitionKey(line))
                      value == StripChars(StripChars(Strip(PartitionValue(line)),
                                                     {"\""}), {"'"})
                  IN  [k \in DOMAIN prev \cup {key} |->
                          IF k = key THEN value ELSE prev[k]]
             ELSE prev

\* ServiceManager._get_configured_ports
GetConfiguredPorts(capability, envfile) ==
    IF capability = None THEN NoPorts
    ELSE LET env_vars == ParseEnvLines(envfile, Len(envfile))
             ports == Cap(capability).ports
         IN  [port_key \in DOMAIN ports |->
                 LET env_var == ports[port_key].env_var
                     default_port == ports[port_key].default
                 IN  IF env_var # <<>> /\ env_var \in DOMAIN env_vars
                     THEN IF IsInt(env_vars[env_var])
                          THEN ParseInt(env_vars[env_var])
                          ELSE default_port
                     ELSE default_port]

\* ------------------------------------------------------------------------
\* Resource gate
\* ------------------------------------------------------------------------
\* what the host reports when it is asked: free RAM, GPU presence, free VRAM
\* (-1: the probe gives no figure)
Hosts ==
    { [free_gb |-> 16, gpu |-> TRUE, vram_free_gb |-> 16],
      [free_gb |-> 16, gpu |-> FALSE, vram_free_gb |-> -1],
      [free_gb |-> 6, gpu |-> TRUE, vram_free_gb |-> 16],
      [free_gb |-> 16, gpu |-> TRUE, vram_free_gb |-> 4] }

\* ResourceMonitor.check_resources_available
CheckResourcesAvailable(h, required_vram_gb, required_ram_gb, gpu_required) ==
    LET available_ram == h.free_gb - RamReserveGb
    IN  IF required_ram_gb # 0 /\ available_ram < required_ram_gb THEN FALSE
        ELSE IF gpu_required /\ ~h.gpu THEN FALSE
        ELSE IF required_vram_gb # 0 /\ h.gpu /\ h.vram_free_gb # -1
                /\ h.vram_free_gb - VramReserveGb < required_vram_gb
        THEN FALSE
        ELSE TRUE

\* ------------------------------------------------------------------------
\* State
\* ------------------------------------------------------------------------
VARIABLES
    services,   \* ServiceDiscovery._services: id -> Service
    fs,         \* the service folders on disk: manifest and .env per folder
    procs,      \* every child process spawned so far (subprocess.Popen)
    call,       \* per service id: the lifecycle call in flight or last ended
    loop,       \* the call inside a section without awaits, or "free"
    batch,      \* the stop_all_services call in flight
    scanner,    \* the scan() a worker thread is running
    captured,   \* per service id: the lines its log buffer has been given
    docs,       \* per service folder: its README.md and .env.example, or None
    report      \* what the last batch call of the PortConfigurator returned

vars ==
    <<services, fs, procs, call, loop, batch, scanner, captured, docs, report>>

\* what the lifecycle operations on one service leave alone
aux == <<batch, scanner, captured, docs, report>>

\* models.Service as ServiceDiscovery._create_service constructs it
Service(status, capability) ==
    [status |-> status, capability |-> capability,
     pid |-> NoProc, process |-> NoProc, assigned_ports |-> NoPorts,
     start_time |-> NoTime, error |-> None, logs |-> <<>>,
     health_status |-> "unknown", last_health_check |-> NoTime]

\* Service.is_running
IsRunning(service) == service.status = RUNNING

\* the record of a lifecycle call: which operation, where it is suspended,
\* the port overrides it carries, how it ended (returned / raised and the
\* message), what it returned, the probes made by the readiness wait and
\* the signals and timeouts of the stop it performed
NoResult == [status |-> None, reason |-> None, exit_code |-> -1]

IdleCall ==
    [op |-> "none", pc |-> "idle", pa |-> NoPorts, outcome |-> "none",
     exc |-> None, ret |-> NoResult, polls |-> 0, events |-> <<>>]

Ended(op, outcome, exc, ret, events) ==
    [op |-> op, pc |-> "idle", pa |-> NoPorts, outcome |-> outcome,
     exc |-> exc, ret |-> ret, polls |-> 0, events |-> events]

Suspended(op, pc, pa, polls, events) ==
    [op |-> op, pc |-> pc, pa |-> pa, outcome |-> "none",
     exc |-> None, ret |-> NoResult, polls |-> polls, events |-> events]

\* subprocess.Popen.poll() is not None
Exited(p) == procs[p].state = "exited"

\* the Popen object of child p is the process handle of a service
Referenced(p) == \E id \in DOMAIN services : services[id].process = p

\* a Popen object no service refers to any more is garbage: nothing reads its
\* return code again
Collected(ps, svcs) ==
    [p \in 1..Len(ps) |->
        IF ps[p].state = "exited"
           /\ \A id \in DOMAIN svcs : svcs[id].process # p
        THEN [ps[p] EXCEPT !.returncode = 0]
        ELSE ps[p]]

\* the capture threads of the children spawned so far append to Service
\* objects that a scan has discarded: nothing reads those buffers again
Orphaned(ps) ==
    [p \in 1..Len(ps) |-> [ps[p] EXCEPT !.reader = None, !.sliced = <<>>]]

\* the capture threads (lines 181-194) that are alive and append to the log
\* buffer of the registry's Service id: a thread ends when the output of its
\* child ends
LiveReaders(id) ==
    {p \in 1..Len(procs) : procs[p].state = "alive" /\ procs[p].reader = id}

\* datetime.now(): some time, as opposed to no time
Now == 1

\* the design serialises the operations on one id in the caller (one
\* in-flight operation per service)
CallerIdle(id) == call[id].pc = "idle" /\ call[id].outcome = "none"

\* a call has ended and its caller has yet to take the result
Pending == \E id \in DOMAIN call : call[id].outcome # "none"

\* a folder that has neither a README.md nor a .env.example
NoDocs == [readme |-> None, example |-> None]

\* no stop_all_services call, no scan in a worker thread
NoBatch == [pc |-> "idle", todo |-> <<>>, log |-> <<>>]
NoScanner == [pc |-> "idle", todo |-> <<>>, old |-> <<>>]
\* no batch call of the PortConfigurator has returned yet
NoReport == [op |-> "none", outcome |-> "none", results |-> <<>>]

\* ------------------------------------------------------------------------
\* Filesystem predicates of ServiceDiscovery
\* ------------------------------------------------------------------------
\* ServiceDiscovery._is_valid_service
IsValidService(folder) == folder.entry \/ folder.manifest # "absent"

\* ServiceDiscovery._load_capability: the capability, or "malformed" (raises)
LoadCapability(folder) == folder.manifest

\* ServiceDiscovery._create_service
CreateService(folder) ==
    LET capability ==
            IF folder.manifest \in CapNames THEN LoadCapability(folder)
            ELSE None
    IN  Service(IF capability # None THEN READY ELSE DISCOVERED, capability)

\* ------------------------------------------------------------------------
\* Initial state: empty registry, some folders on disk
\* ------------------------------------------------------------------------
Folders ==
    [entry : BOOLEAN, manifest : Manifests, env : EnvFiles]

TypeOK ==
    /\ DOMAIN services \subseteq DOMAIN call
    /\ \A id \in DOMAIN services :
          /\ services[id].status \in ServiceStatus
          /\ services[id].capability \in CapNames \cup {None}
          /\ services[id].process \in 0..Len(procs)
          /\ services[id].pid \in 0..Len(procs)
          /\ DOMAIN services[id].assigned_ports \subseteq {"api", "ui"}
    /\ DOMAIN fs = DOMAIN call
    /\ \A id \in DOMAIN fs :
          /\ fs[id].entry \in BOOLEAN
          /\ fs[id].manifest \in Manifests
          /\ fs[id].env \in Seq(Seq(STRING))
    /\ loop \in DOMAIN call \cup {"free", "all"}
    /\ \A p \in 1..Len(procs) : procs[p].reader \in DOMAIN call \cup {None}
    /\ batch.pc \in {"idle", "loop", "stop", "done", "raised"}
    /\ scanner.pc \in {"idle", "fill"}
    /\ captured \in [DOMAIN call -> Nat]
    /\ DOMAIN docs = DOMAIN fs
    /\ \A id \in DOMAIN docs :
          /\ docs[id].readme = None \/ docs[id].readme \in Seq(STRING)
          /\ docs[id].example = None \/ docs[id].example \in Seq(Seq(STRING))
    /\ report.outcome \in {"none", "returned", "raised"}

\* the registry is empty until the first scan; the folder is a service
\* folder with any manifest
Init ==
    /\ services = [id \in {} |-> Service(DISCOVERED, None)]
    /\ fs \in [Ids -> Folders]
    /\ \A id \in Ids : fs[id].entry /\ fs[id].env = NoEnvFile
    /\ procs = <<>>
    /\ call = [id \in Ids |-> IdleCall]
    /\ loop = "free"
    /\ batch = NoBatch
    /\ scanner = NoScanner
    /\ captured = [id \in Ids |-> 0]
    /\ docs = [id \in Ids |-> NoDocs]
    /\ report = NoReport

\* ------------------------------------------------------------------------
\* ServiceDiscovery
\* ------------------------------------------------------------------------
\* ServiceDiscovery.scan: the registry is cleared and rebuilt
Scan ==
    /\ loop = "free" /\ ~Pending
    /\ \A id \in DOMAIN call : CallerIdle(id)
    /\ scanner.pc = "idle"
    /\ services' = [id \in {i \in DOMAIN fs : IsValidService(fs[i])} |->
                        CreateService(fs[id])]
    /\ procs' = Collected(Orphaned(procs), services')
    /\ captured' = [id \in DOMAIN captured |-> 0]
    /\ UNCHANGED <<fs, call, loop, batch, scanner, docs, report>>

\* the order in which scan meets the folders, which is the order of the
\* registry (a dict keeps insertion order)
IdOrder == <<"a", "b", "c">>

\* ServiceDiscovery.get_all_services: the ids of the registry in its order
GetAllServices(svcs) == SelectSeq(IdOrder, LAMBDA i : i \in DOMAIN svcs)

\* a refresh that forgets the capability it could not reload
RefreshedServiceDropping(service, folder) ==
    IF folder.manifest = "absent" THEN service
    ELSE IF folder.manifest = "malformed"
    THEN [service EXCEPT !.error = "yaml", !.status = ERROR,
                         !.capability = None]
    ELSE [service EXCEPT
             !.capability = LoadCapability(folder),
             !.status = IF service.status = DISCOVERED THEN READY
                        ELSE service.status]

\* a refresh that loads the capability and leaves the status as it is
RefreshedServiceNoPromotion(service, folder) ==
    IF folder.manifest = "absent" THEN service
    ELSE IF folder.manifest = "malformed"
    THEN [service EXCEPT !.error = "yaml", !.status = ERROR]
    ELSE [service EXCEPT !.capability = LoadCapability(folder)]

\* ServiceDiscovery.refresh_service, on the folder as it will be read
RefreshedService(service, folder) ==
    IF folder.manifest = "absent" THEN service
    ELSE IF folder.manifest = "malformed"
    THEN [service EXCEPT !.error = "yaml", !.status = ERROR]
    ELSE [service EXCEPT
             !.capability = LoadCapability(folder),
             !.status = IF service.status = DISCOVERED THEN READY
                        ELSE service.status]

RefreshService(id) ==
    /\ loop = "free" /\ CallerIdle(id)
    /\ id \in DOMAIN services
    /\ services' = [services EXCEPT ![id] = RefreshedService(@, fs[id])]
    /\ UNCHANGED <<fs, procs, call, loop>>
    /\ UNCHANGED aux

\* ServiceDiscovery.update_service_capability: write the file, then refresh
UpdateServiceCapability(id, yaml) ==
    /\ loop = "free" /\ CallerIdle(id)
    /\ id \in DOMAIN services
    /\ fs' = [fs EXCEPT ![id].manifest = yaml]
    /\ services' = [services EXCEPT ![id] = RefreshedService(@, fs'[id])]
    /\ UNCHANGED <<procs, call, loop>>
    /\ UNCHANGED aux

\* ------------------------------------------------------------------------
\* Environment: child processes
\* ------------------------------------------------------------------------
\* a child process exits on its own or because of a signal; its environment
\* goes with it
ChildExit(p, code) ==
    /\ ~Pending
    /\ p \in 1..Len(procs)
    /\ procs[p].state = "alive"
    /\ Referenced(p) \/ code = 0
    /\ procs' = [procs EXCEPT ![p] =
           [state |-> "exited", returncode |-> code, env |-> NoEnv,
            reader |-> None, sliced |-> <<>>]]
    /\ UNCHANGED <<services, fs, call, loop>>
    /\ UNCHANGED aux

\* ------------------------------------------------------------------------
\* ServiceManager.start_service
\* ------------------------------------------------------------------------
\* str(int)
RECURSIVE IntToText(_)
IntToText(n) ==
    IF n < 10 THEN <<Digits[n + 1]>>
    ELSE IntToText(n \div 10) \o <<Digits[(n % 10) + 1]>>

\* the order in which capability.ports.items() yields the declared keys
PortKeyOrder == <<"api", "ui">>

\* a port resolution in which the environment file beats an explicit override
ResolvePortsFileFirst(capability, port_assignments, configured_ports) ==
    LET ports == Cap(capability).ports
    IN  [port_key \in DOMAIN port_assignments \cup DOMAIN ports |->
            IF port_key \in DOMAIN configured_ports
            THEN configured_ports[port_key]
            ELSE port_assignments[port_key]]

\* lines 70-75: overrides first, then the configured port of each declared key
ResolvePorts(capability, port_assignments, configured_ports) ==
    LET ports == Cap(capability).ports
    IN  [port_key \in DOMAIN port_assignments \cup DOMAIN ports |->
            IF port_key \in DOMAIN port_assignments
            THEN port_assignments[port_key]
            ELSE configured_ports[port_key]]

\* lines 77-78: the port variables the child's environment receives; a later
\* key writing the same variable overwrites an earlier one
InjectedEnv(capability, assigned_ports) ==
    LET ports == Cap(capability).ports
        keysOf(v) == {i \in 1..Len(PortKeyOrder) :
                         /\ PortKeyOrder[i] \in DOMAIN ports
                         /\ ports[PortKeyOrder[i]].env_var = v}
        last(v) == PortKeyOrder[CHOOSE i \in keysOf(v) :
                                    \A j \in keysOf(v) : j <= i]
    IN  [v \in {ports[k].env_var : k \in DOMAIN ports} \ {<<>>} |->
            IntToText(assigned_ports[last(v)])]

\* lines 59-63
ResourcesOk(capability, host) ==
    CheckResourcesAvailable(host, Cap(capability).min_vram_gb,
                            Cap(capability).min_ram_gb,
                            Cap(capability).gpu_required)

\* the pre-checks without the test of line 54
StartPrecheckNoRunningTest(id, host) ==
    IF id \notin DOMAIN services THEN "Service not found"
    ELSE IF services[id].capability = None THEN "has no CAPABILITY.yaml"
    ELSE IF ~ResourcesOk(services[id].capability, host) THEN "Cannot start"
    ELSE None

\* the pre-checks without the resource gate of lines 59-65
StartPrecheckNoGate(id, host) ==
    IF id \notin DOMAIN services THEN "Service not found"
    ELSE IF services[id].capability = None THEN "has no CAPABILITY.yaml"
    ELSE IF IsRunning(services[id]) THEN "is already running"
    ELSE None

\* lines 47-65: the message of the ValueError the pre-checks raise, or None
StartPrecheck(id, host) ==
    IF id \notin DOMAIN services THEN "Service not found"
    ELSE IF services[id].capability = None THEN "has no CAPABILITY.yaml"
    ELSE IF IsRunning(services[id]) THEN "is already running"
    ELSE IF ~ResourcesOk(services[id].capability, host) THEN "Cannot start"
    ELSE None

\* _wait_for_ready lines 148-153 return at once: no health path, or no
\* (or a zero) "api" port among the assigned ports
ReadyWaitSkipped(capability, assigned_ports) ==
    \/ Cap(capability).health_check_path = None
    \/ "api" \notin DOMAIN assigned_ports
    \/ assigned_ports["api"] = 0

\* where start_service first gives up the section it runs in after Popen
AfterSpawn(capability, assigned_ports) ==
    IF Cap(capability).health_check_path = None THEN "grace"
    ELSE IF ReadyWaitSkipped(capability, assigned_ports) THEN "ready_skip"
    ELSE "ready_poll"

\* lines 47-132, from the call to its first await, for operation op
\* (start_service itself, or the start_service that restart_service calls),
\* on a host that reports host to the resource gate
StartBody(id, port_assignments, host, op) ==
    IF StartPrecheck(id, host) # None
    THEN /\ call' = [call EXCEPT ![id] =
                        Ended(op, "raised", StartPrecheck(id, host), NoResult, @.events)]
         /\ loop' = "free"
         /\ UNCHANGED <<services, procs>>
    ELSE
      LET service == services[id]
          capability == service.capability
          assigned_ports ==
              ResolvePorts(capability, port_assignments,
                           GetConfiguredPorts(capability, fs[id].env))
          starting == [service EXCEPT !.status = STARTING,
                                      !.assigned_ports = assigned_ports,
                                      !.error = None]
      IN  /\ Len(procs) < MaxSpawns
          /\ \/ \* Popen raises (line 112): the except clause of line 139
                /\ services' = [services EXCEPT ![id] =
                       [starting EXCEPT !.status = FAILED, !.error = "popen"]]
                /\ procs' = procs
                /\ call' = [call EXCEPT ![id] =
                       Ended(op, "raised", "popen", NoResult, @.events)]
                /\ loop' = "free"
             \/ \* the child is spawned (lines 112-127)
                LET next == AfterSpawn(capability, assigned_ports)
                IN  /\ services' = [services EXCEPT ![id] =
                           [starting EXCEPT !.process = Len(procs) + 1,
                                            !.pid = Len(procs) + 1,
                                            !.start_time = Now]]
                    /\ procs' = Collected(Append(procs,
                           [state |-> "alive", returncode |-> 0,
                            env |-> InjectedEnv(capability, assigned_ports),
                            reader |-> id, sliced |-> <<>>]),
                           services')
                    /\ call' = [call EXCEPT ![id] =
                           Suspended(op, next, NoPorts, 0, @.events)]
                    /\ loop' = IF next = "grace" THEN "free" ELSE id

\* the port overrides a caller passes
PortArgs ==
    { NoPorts,
      [k \in {"api"} |-> 9000],
      [k \in {"api", "ui"} |-> IF k = "api" THEN 0 ELSE 9001] }

StartService(id, port_assignments, host) ==
    /\ loop = "free"
    /\ CallerIdle(id)
    /\ StartBody(id, port_assignments, host, "start")
    /\ UNCHANGED fs
    /\ UNCHANGED aux

\* the except clause recording the error but not the FAILED status
StartFailsKeepsStatus(id, message) ==
    /\ services' = [services EXCEPT ![id].error = message]
    /\ call' = [call EXCEPT ![id] =
                   Ended(@.op, "raised", message, NoResult, @.events)]
    /\ loop' = "free"

\* lines 139-143
StartFails(id, message) ==
    /\ services' = [services EXCEPT ![id].status = FAILED,
                                    ![id].error = message]
    /\ call' = [call EXCEPT ![id] =
                   Ended(@.op, "raised", message, NoResult, @.events)]
    /\ loop' = "free"

\* lines 136-145
StartSucceeds(id) ==
    /\ services' = [services EXCEPT ![id].status = RUNNING]
    /\ call' = [call EXCEPT ![id] =
                   Ended(@.op, "returned", None, NoResult, @.events)]
    /\ loop' = "free"

\* _wait_for_ready returned without polling (lines 148-153), then line 136
StartReadySkipped(id) ==
    /\ loop = id
    /\ call[id].pc = "ready_skip"
    /\ StartSucceeds(id)
    /\ UNCHANGED <<fs, procs>>
    /\ UNCHANGED aux

\* _wait_for_ready lines 162-167: the loop condition, the poll of the child,
\* and the GET that is issued
ReadyPoll(id) ==
    /\ loop \in {"free", id}
    /\ call[id].pc = "ready_poll"
    /\ IF call[id].polls >= MaxPolls
       THEN StartFails(id, "did not become ready")
       ELSE IF services[id].process # NoProc /\ Exited(services[id].process)
       THEN StartFails(id, "Process exited during startup")
       ELSE /\ call' = [call EXCEPT ![id].pc = "ready_get"]
            /\ loop' = "free"
            /\ UNCHANGED services
    /\ UNCHANGED <<fs, procs>>
    /\ UNCHANGED aux

\* what the GET of a probe ends with: a status code, one of the two errors
\* the wait tolerates, or any other exception of the HTTP client
Responses == {"200", "503", "ConnectError", "TimeoutException", "other"}

\* _wait_for_ready lines 167-174: the GET ends; on anything but a 200 or an
\* unexpected exception, sleep one second and loop
ReadyGet(id, response) ==
    /\ loop = "free"
    /\ call[id].pc = "ready_get"
    /\ IF response = "200" THEN StartSucceeds(id)
       ELSE IF response = "other" THEN StartFails(id, "http")
       ELSE /\ call' = [call EXCEPT ![id].pc = "ready_poll",
                                    ![id].polls = @ + 1]
            /\ UNCHANGED <<services, loop>>
    /\ UNCHANGED <<fs, procs>>
    /\ UNCHANGED aux

\* lines 132-136: after the two second sleep
GraceCheck(id) ==
    /\ loop = "free"
    /\ call[id].pc = "grace"
    /\ IF Exited(services[id].process)
       THEN StartFails(id, "Process exited with code")
       ELSE StartSucceeds(id)
    /\ UNCHANGED <<fs, procs>>
    /\ UNCHANGED aux

\* ------------------------------------------------------------------------
\* ServiceManager.start_service_auto_ports
\* ------------------------------------------------------------------------
PortRange(port_type) ==
    IF port_type = "api" THEN ApiPortMin..ApiPortMax
    ELSE IF port_type = "ui" THEN UiPortMin..UiPortMax
    ELSE OtherPortMin..OtherPortMax

\* port kinds: the two with a machine range and any other key
PortTypes == {"api", "ui", "metrics"}

\* ServiceManager._is_port_in_machine_range
IsPortInMachineRange(port, port_type) ==
    IF port_type \in {"api", "ui"} THEN port \in PortRange(port_type)
    ELSE TRUE

\* ServiceManager.get_next_available_port: the first port of the range that
\* is neither excluded nor bound on the host (inuse: the ports on which
\* is_port_in_use answers True); NoPort when the range is exhausted (raises)
NoPort == 0

\* the first and the last port of a kind's range
PortMin(port_type) ==
    IF port_type = "api" THEN ApiPortMin
    ELSE IF port_type = "ui" THEN UiPortMin
    ELSE OtherPortMin
PortMax(port_type) ==
    IF port_type = "api" THEN ApiPortMax
    ELSE IF port_type = "ui" THEN UiPortMax
    ELSE OtherPortMax

\* a search that does not ask the host whether the port is bound
PortIsFreeUnprobed(port, used_ports, inuse) == port \notin used_ports

\* the test of the loop: the port is not claimed and is_port_in_use is False
PortIsFree(port, used_ports, inuse) ==
    port \notin used_ports /\ port \notin inuse

\* for port in range(port_min, port_max + 1): the first port that passes,
\* NoPort when the loop ends without one; the ports are visited in the
\* loop's order, the lower half of the range before the upper half
RECURSIVE FirstFreePort(_, _, _, _)
FirstFreePort(port_min, port_max, used_ports, inuse) ==
    IF port_min > port_max THEN NoPort
    ELSE IF port_min = port_max
    THEN IF PortIsFree(port_min, used_ports, inuse) THEN port_min ELSE NoPort
    ELSE LET middle == (port_min + port_max) \div 2
             lower == FirstFreePort(port_min, middle, used_ports, inuse)
         IN  IF lower # NoPort THEN lower
             ELSE FirstFreePort(middle + 1, port_max, used_ports, inuse)

GetNextAvailablePort(port_type, exclude, inuse) ==
    FirstFreePort(PortMin(port_type), PortMax(port_type), exclude, inuse)

\* the keys of a capability's ports in the order of the manifest
PortKeys(ports) == SelectSeq(PortKeyOrder, LAMBDA k : k \in DOMAIN ports)

\* lines 435-440: the ports assigned to the services that are RUNNING
UsedPorts(svcs) ==
    UNION {{svcs[id].assigned_ports[k] : k \in DOMAIN svcs[id].assigned_ports} :
              id \in {i \in DOMAIN svcs : IsRunning(svcs[i])}}

\* lines 442-460: the assignment, key by key
RECURSIVE AutoPortAssignments(_, _, _, _)
AutoPortAssignments(ports, keys, used_ports, inuse) ==
    IF keys = <<>> THEN NoPorts
    ELSE LET port_key == Head(keys)
             default_port == ports[port_key].default
             port ==
                 IF /\ IsPortInMachineRange(default_port, port_key)
                    /\ default_port \notin used_ports
                    /\ default_port \notin inuse
                 THEN default_port
                 ELSE GetNextAvailablePort(port_key, used_ports, inuse)
             rest == AutoPortAssignments(ports, Tail(keys),
                                         used_ports \cup {port}, inuse)
         IN  [k \in {port_key} \cup DOMAIN rest |->
                 IF k = port_key THEN port ELSE rest[k]]

\* what is_port_in_use answers during one call: the ports bound on the host
ProbeResults == {{}, {ApiPortMin}}

StartServiceAutoPorts(id, inuse, host) ==
    /\ loop = "free"
    /\ CallerIdle(id)
    /\ IF id \notin DOMAIN services \/ services[id].capability = None
       THEN /\ call' = [call EXCEPT ![id] =
                   Ended("start", "raised", "not found or has no capability",
                         NoResult, @.events)]
            /\ UNCHANGED <<services, procs, loop>>
       ELSE LET ports == Cap(services[id].capability).ports
                port_assignments ==
                    AutoPortAssignments(ports, PortKeys(ports),
                                        UsedPorts(services), inuse)
            IN  IF \E k \in DOMAIN port_assignments :
                       port_assignments[k] = NoPort
                THEN /\ call' = [call EXCEPT ![id] =
                            Ended("start", "raised", "No available ports",
                                  NoResult, @.events)]
                     /\ UNCHANGED <<services, procs, loop>>
                ELSE StartBody(id, port_assignments, host, "start")
    /\ UNCHANGED fs
    /\ UNCHANGED aux

\* ------------------------------------------------------------------------
\* PortConfigurator.update_readme_ports: the README patterns
\* ------------------------------------------------------------------------
\* the grave accent of a Markdown code span, which a string cannot hold
Backtick == "grave"

\* the characters \s matches in the texts of the model
IsSpace(c) == c \in {" ", "\t", "\n"}

\* the number of digits, and of spaces, that follow from position i on
RECURSIVE DigitRun(_, _)
DigitRun(s, i) ==
    IF i <= Len(s) /\ IsDigit(s[i]) THEN 1 + DigitRun(s, i + 1) ELSE 0
RECURSIVE SpaceRun(_, _)
SpaceRun(s, i) ==
    IF i <= Len(s) /\ IsSpace(s[i]) THEN 1 + SpaceRun(s, i + 1) ELSE 0

\* the literal is in the text at position i
StartsWith(s, i, literal) ==
    /\ i + Len(literal) - 1 <= Len(s)
    /\ \A j \in 1..Len(literal) : s[i + j - 1] = literal[j]

\* the length of the first of the literals that is at position i, else 0
RECURSIVE FirstLiteral(_, _, _)
FirstLiteral(s, i, literals) ==
    IF literals = <<>> THEN 0
    ELSE IF StartsWith(s, i, Head(literals)) THEN Len(Head(literals))
    ELSE FirstLiteral(s, i, Tail(literals))

\* a match: its length, where its digits start and how many they are
NoMatch == [len |-> 0, at |-> 0, digits |-> 0]
Matched(i, at, digits, end) == [len |-> end - i, at |-> at, digits |-> digits]

\* the literal texts of the patterns
PortWord == <<"p", "o", "r", "t">>

\* pattern 1, a URL of this host: scheme, host, colon, digits
UrlSchemes == <<<<"h", "t", "t", "p", "s", ":", "/", "/">>, <<"h", "t", "t", "p", ":", "/", "/">>>>
UrlHosts == <<<<"l", "o", "c", "a", "l", "h", "o", "s", "t">>, <<"1", "2", "7", ".", "0", ".", "0", ".", "1">>, <<"0", ".", "0", ".", "0", ".", "0">>>>
MatchUrl(s, i) ==
    LET scheme == FirstLiteral(s, i, UrlSchemes)
        host == FirstLiteral(s, i + scheme, UrlHosts)
        at == i + scheme + host + 1
    IN  IF /\ scheme > 0 /\ host > 0
           /\ StartsWith(s, i + scheme + host, <<":">>)
           /\ DigitRun(s, at) > 0
        THEN Matched(i, at, DigitRun(s, at), at + DigitRun(s, at))
        ELSE NoMatch

\* pattern 2, a table cell: bar, spaces, an optional backtick, digits, an
\* optional backtick, spaces, bar
MatchCell(s, i) ==
    LET open == i + 1 + SpaceRun(s, i + 1)
        at == IF StartsWith(s, open, <<Backtick>>) THEN open + 1 ELSE open
        close == at + DigitRun(s, at)
        after == IF StartsWith(s, close, <<Backtick>>) THEN close + 1 ELSE close
        bar == after + SpaceRun(s, after)
    IN  IF /\ StartsWith(s, i, <<"|">>)
           /\ DigitRun(s, at) > 0
           /\ StartsWith(s, bar, <<"|">>)
        THEN Matched(i, at, DigitRun(s, at), bar + 1)
        ELSE NoMatch

\* the end of the longest run of spaces from position i that is followed by
\* "#", by the end of the text or by a line feed (which it takes); 0 if none
RECURSIVE ValueEnd(_, _, _)
ValueEnd(s, i, spaces) ==
    IF spaces < 0 THEN 0
    ELSE IF StartsWith(s, i + spaces, <<"#">>) THEN i + spaces + 1
    ELSE IF i + spaces > Len(s) THEN i + spaces
    ELSE IF i + spaces = Len(s) /\ s[i + spaces] = "\n" THEN i + spaces
    ELSE IF s[i + spaces] = "\n" THEN i + spaces + 1
    ELSE ValueEnd(s, i, spaces - 1)

\* pattern 3, a value: "=", spaces, digits, spaces, then "#", the end of the
\* text or a line feed
MatchValue(s, i) ==
    LET at == i + 1 + SpaceRun(s, i + 1)
        close == at + DigitRun(s, at)
        end == ValueEnd(s, close, SpaceRun(s, close))
    IN  IF StartsWith(s, i, <<"=">>) /\ DigitRun(s, at) > 0 /\ end > 0
        THEN Matched(i, at, DigitRun(s, at), end)
        ELSE NoMatch

\* pattern 4, a port flag: one or two dashes, an optional api, ui or gradio
\* with an optional dash, "port", spaces, digits
FlagKinds == <<<<"a", "p", "i", "-">>, <<"a", "p", "i">>, <<"u", "i", "-">>, <<"u", "i">>, <<"g", "r", "a", "d", "i", "o", "-">>, <<"g", "r", "a", "d", "i", "o">>>>
MatchFlag(s, i) ==
    LET dashes == IF StartsWith(s, i, <<"-", "-">>) THEN 2
                  ELSE IF StartsWith(s, i, <<"-">>) THEN 1 ELSE 0
        kind == FirstLiteral(s, i + dashes, FlagKinds)
        word == IF StartsWith(s, i + dashes + kind, PortWord)
                THEN i + dashes + kind
                ELSE i + dashes
        at == word + Len(PortWord) + SpaceRun(s, word + Len(PortWord))
    IN  IF /\ dashes > 0
           /\ StartsWith(s, word, PortWord)
           /\ SpaceRun(s, word + Len(PortWord)) > 0
           /\ DigitRun(s, at) > 0
        THEN Matched(i, at, DigitRun(s, at), at + DigitRun(s, at))
        ELSE NoMatch

\* pattern 5, a colon and four or five digits before a space, a comma, a
\* closing bracket, a slash or the end of the text
ColonEnds == {" ", "\t", "\n", ",", ")", "]", "/"}
MatchColon(s, i) ==
    LET run == DigitRun(s, i + 1)
    IN  IF /\ StartsWith(s, i, <<":">>)
           /\ run \in {4, 5}
           /\ (i + run = Len(s) \/ s[i + 1 + run] \in ColonEnds)
        THEN Matched(i, i + 1, run, i + 1 + run)
        ELSE NoMatch

\* README_PORT_PATTERNS in their order
ReadmePortPatterns == 1..5
MatchPattern(pattern, s, i) ==
    CASE pattern = 1 -> MatchUrl(s, i)
      [] pattern = 2 -> MatchCell(s, i)
      [] pattern = 3 -> MatchValue(s, i)
      [] pattern = 4 -> MatchFlag(s, i)
      [] pattern = 5 -> MatchColon(s, i)

\* line 158: the first run of four or five digits of the text is replaced
RECURSIVE ReplaceFirstPort(_, _, _)
ReplaceFirstPort(text, i, new_port_str) ==
    IF i > Len(text) THEN text
    ELSE IF DigitRun(text, i) >= 4
    THEN LET taken == IF DigitRun(text, i) >= 5 THEN 5 ELSE 4
         IN  SubSeq(text, 1, i - 1) \o new_port_str
             \o SubSeq(text, i + taken, Len(text))
    ELSE ReplaceFirstPort(text, i + 1, new_port_str)

\* a replacement that does not compare the number with the old port
IsOldPortAnyNumber(s, m, old_port_str) == m.digits >= 4

\* lines 150-156: the digits of the match are four or more and are the text
\* of the old port
IsOldPort(s, m, old_port_str) ==
    m.digits >= 4 /\ SubSeq(s, m.at, m.at + m.digits - 1) = old_port_str

\* a result of the rewriting: the text so far and the replacements so far
Rewritten(content, count) == [content |-> content, count |-> count]
\* a loop goes on with what it has so far (a step is over before the next)
SoFar(acc) == acc.count \in Nat

\* the match of the pattern at every position of the text
Matches(pattern, s) == [j \in 1..Len(s) |-> MatchPattern(pattern, s, j)]

\* the first position from i on that has a match, 0 when there is none
NextMatch(ms, i) ==
    IF \E j \in i..Len(ms) : ms[j].len > 0
    THEN CHOOSE j \in i..Len(ms) :
             ms[j].len > 0 /\ \A k \in i..(j - 1) : ms[k].len = 0
    ELSE 0

\* replace_if_match for the match m at position j: the text it returns and
\* what it adds to the count
ReplaceIfMatch(s, m, j, old_port_str, new_port_str) ==
    IF IsOldPort(s, m, old_port_str)
    THEN Rewritten(ReplaceFirstPort(SubSeq(s, j, j + m.len - 1), 1,
                                    new_port_str), 1)
    ELSE Rewritten(SubSeq(s, j, j + m.len - 1), 0)

\* the text before a match and what the match became join what was done
AfterMatch(acc, before, replaced) ==
    Rewritten(acc.content \o before \o replaced.content,
              acc.count + replaced.count)

\* re.sub for one pattern from position i on: the matches are taken from the
\* left and do not overlap, the text between them is kept
RECURSIVE SubMatches(_, _, _, _, _, _)
SubMatches(s, ms, i, acc, old_port_str, new_port_str) ==
    IF ~SoFar(acc) \/ NextMatch(ms, i) = 0
    THEN Rewritten(acc.content \o SubSeq(s, i, Len(s)), acc.count)
    ELSE SubMatches(s, ms, NextMatch(ms, i) + ms[NextMatch(ms, i)].len,
                    AfterMatch(acc, SubSeq(s, i, NextMatch(ms, i) - 1),
                               ReplaceIfMatch(s, ms[NextMatch(ms, i)],
                                              NextMatch(ms, i),
                                              old_port_str, new_port_str)),
                    old_port_str, new_port_str)

\* line 161: re.sub(pattern, replace_if_match, content), count running on
SubPattern(pattern, acc, old_port_str, new_port_str) ==
    SubMatches(acc.content, Matches(pattern, acc.content), 1,
               Rewritten(<<>>, acc.count), old_port_str, new_port_str)

\* lines 145-161: the patterns one after another from the given one on
RECURSIVE SubPatterns(_, _, _, _)
SubPatterns(acc, pattern, old_port_str, new_port_str) ==
    IF ~SoFar(acc) \/ pattern \notin ReadmePortPatterns THEN acc
    ELSE SubPatterns(SubPattern(pattern, acc, old_port_str, new_port_str),
                     pattern + 1, old_port_str, new_port_str)

\* PortConfigurator._replace_port_in_readme
ReplacePortInReadme(content, old_port, new_port) ==
    SubPatterns(Rewritten(content, 0), 1, IntToText(old_port),
                IntToText(new_port))

\* lines 117-120: what one port changed joins the text and the total
AddChangesForPort(acc, changes_for_port) ==
    IF changes_for_port.count > 0
    THEN Rewritten(changes_for_port.content,
                   acc.count + changes_for_port.count)
    ELSE acc

\* lines 111-118: one change; nothing is done when the ports are equal
ApplyPortChange(acc, change) ==
    IF change[1] = change[2] THEN acc
    ELSE AddChangesForPort(acc, ReplacePortInReadme(acc.content, change[1],
                                                    change[2]))

\* lines 110-124: the changes (<<old_port, new_port>>) one after another
RECURSIVE ApplyPortChanges(_, _, _)
ApplyPortChanges(acc, port_changes, n) ==
    IF ~SoFar(acc) \/ n > Len(port_changes) THEN acc
    ELSE ApplyPortChanges(ApplyPortChange(acc, port_changes[n]),
                          port_changes, n + 1)

\* lines 126-135: the file is written when the text differs
ReadmeResult(readme, done) ==
    IF done.content # readme
    THEN [readme |-> done.content, updated |-> TRUE,
          changes_made |-> done.count]
    ELSE [readme |-> readme, updated |-> FALSE, changes_made |-> 0]

\* PortConfigurator.update_readme_ports: the README afterwards (None while
\* there is none) and the result
UpdateReadmePorts(readme, port_changes) ==
    IF readme = None
    THEN [readme |-> None, updated |-> FALSE, changes_made |-> 0]
    ELSE ReadmeResult(readme, ApplyPortChanges(Rewritten(readme, 0),
                                               port_changes, 1))

\* PortConfigurator.read_env_file: the lines it parses, those of .env.example
\* while there is no .env
ReadEnvFile(envfile, example) ==
    IF envfile = NoEnvFile /\ example # None THEN example ELSE envfile

\* line 92: the comment that precedes a variable the agent adds
ConfiguredByAgent ==
    <<"#", " ", "P", "o", "r", "t", " ", "c", "o", "n", "f", "i", "g", "u",
      "r", "e", "d", " ", "b", "y", " ", "S", "e", "r", "v", "i", "c", "e",
      "A", "g", "e", "n", "t">>

\* env_updates is the sequence of <<variable, port>> in insertion order
UpdatedVars(env_updates) == {env_updates[i][1] : i \in 1..Len(env_updates)}
UpdateOf(env_updates, key) ==
    env_updates[CHOOSE i \in 1..Len(env_updates) :
                   /\ env_updates[i][1] = key
                   /\ \A j \in (i + 1)..Len(env_updates) :
                         env_updates[j][1] # key][2]

\* line 79: the key of a line that is neither a comment nor without "="
IsAssignment(line) ==
    LET stripped == Strip(line)
    IN  ~(stripped # <<>> /\ Head(stripped) = "#") /\ Contains(stripped, "=")
LineKey(line) == Strip(PartitionKey(Strip(line)))

\* a write that keeps the lines as they are
NewLineKept(line, env_updates) == line

\* lines 73-88: a line that sets an updated variable is replaced
NewLine(line, env_updates) ==
    IF IsAssignment(line) /\ LineKey(line) \in UpdatedVars(env_updates)
    THEN LineKey(line) \o <<"=">>
         \o IntToText(UpdateOf(env_updates, LineKey(line)))
    ELSE line

\* lines 90-94: the variables no line set are added, each after an empty
\* line and the comment
RECURSIVE AddedLines(_, _, _)
AddedLines(env_updates, n, updated_keys) ==
    IF n > Len(env_updates) THEN <<>>
    ELSE LET key == env_updates[n][1]
         IN  (IF key \in updated_keys
                 \/ \E j \in 1..(n - 1) : env_updates[j][1] = key
              THEN <<>>
              ELSE << <<>>, ConfiguredByAgent,
                      key \o <<"=">> \o IntToText(UpdateOf(env_updates, key)) >>)
             \o AddedLines(env_updates, n + 1, updated_keys)

\* PortConfigurator.write_env_file: the lines of the file it writes
WriteEnvFile(lines, env_updates) ==
    LET updated_keys ==
            {LineKey(lines[i]) : i \in {j \in 1..Len(lines) :
                /\ IsAssignment(lines[j])
                /\ LineKey(lines[j]) \in UpdatedVars(env_updates)}}
    IN  [i \in 1..Len(lines) |-> NewLine(lines[i], env_updates)]
        \o AddedLines(env_updates, 1, updated_keys)

\* PortConfigurator.get_next_available_port
NextAvailablePort(port_type, used_ports, inuse) ==
    FirstFreePort(PortMin(port_type), PortMax(port_type), used_ports, inuse)

\* the caller of a PortConfigurator operation takes what it returned
TakeReport ==
    /\ report # NoReport
    /\ report' = NoReport
    /\ UNCHANGED <<services, fs, procs, call, loop, batch, scanner, captured,
                   docs>>

\* a call of one of the two searches: what it returned, or that it raised
SearchNextPort(op, port_type, used_ports, inuse) ==
    /\ op \in {"PortConfigurator", "ServiceManager"}
    /\ report = NoReport
    /\ LET port == IF op = "PortConfigurator"
                   THEN NextAvailablePort(port_type, used_ports, inuse)
                   ELSE GetNextAvailablePort(port_type, used_ports, inuse)
       IN  report' = [op |-> "get_next_available_port",
                      outcome |-> IF port = NoPort THEN "raised"
                                  ELSE "returned",
                      results |-> [by |-> op, port_type |-> port_type,
                                   used_ports |-> used_ports,
                                   inuse |-> inuse, port |-> port]]
    /\ UNCHANGED <<services, fs, procs, call, loop, batch, scanner, captured,
                   docs>>

\* lines 209 and 213: the port joins the ports in use
Claimed(used_ports, port) == used_ports \cup {port}

\* what the loop over the keys of one service has so far: the updates of
\* its environment file (<<env_var, new_port>>), the changes it reports, the
\* ports in use, and whether the search of line 212 raised
KeysSoFar(used_ports) ==
    [env_updates |-> <<>>, changes |-> <<>>, used_ports |-> used_ports,
     raised |-> FALSE]

\* lines 212-222: the port the search found replaces the default; the
\* search raises when it found none
Reassigned(port_key, port_config, acc, new_port) ==
    IF new_port = NoPort THEN [acc EXCEPT !.raised = TRUE]
    ELSE [env_updates |->
              acc.env_updates \o << <<port_config.env_var, new_port>> >>,
          changes |->
              acc.changes \o << [port_key |-> port_key,
                                 env_var |-> port_config.env_var,
                                 old_port |-> port_config.default,
                                 new_port |-> new_port] >>,
          used_ports |-> Claimed(acc.used_ports, new_port),
          raised |-> FALSE]

\* lines 201-222: one key
ResolveKey(port_key, port_config, acc, inuse) ==
    IF port_config.env_var = NoVar THEN acc
    ELSE IF port_config.default \notin acc.used_ports
    THEN [acc EXCEPT !.used_ports = Claimed(@, port_config.default)]
    ELSE Reassigned(port_key, port_config, acc,
                    NextAvailablePort(port_key, acc.used_ports, inuse))

\* lines 201-228: the keys of one service in the order of its manifest
RECURSIVE ResolveKeys(_, _, _, _)
ResolveKeys(ports, keys, acc, inuse) ==
    IF keys = <<>> \/ acc.raised THEN acc
    ELSE ResolveKeys(ports, Tail(keys),
                     ResolveKey(Head(keys), ports[Head(keys)], acc, inuse),
                     inuse)

\* the <<old_port, new_port>> of the changes a service reports
PortChanges(changes) ==
    [n \in 1..Len(changes) |-> <<changes[n].old_port, changes[n].new_port>>]

\* lines 232-239: the files of a service that has updates, and its result
WrittenService(mine, envlines, readme_result) ==
    [env |-> WriteEnvFile(envlines, mine.env_updates),
     readme |-> readme_result.readme,
     result |-> [changes |-> mine.changes, updated |-> TRUE,
                 readme_updated |-> readme_result.updated,
                 readme_changes |-> readme_result.changes_made]]

\* lines 230-243: the files of one service after its keys, and its result
ResolveWrites(mine, envfile, document) ==
    IF mine.env_updates # <<>>
    THEN WrittenService(mine, ReadEnvFile(envfile, document.example),
                        UpdateReadmePorts(document.readme,
                                          PortChanges(mine.changes)))
    ELSE [env |-> envfile,
          readme |-> document.readme,
          result |-> [changes |-> <<>>, updated |-> FALSE,
                      readme_updated |-> FALSE, readme_changes |-> 0]]

\* what the loop over the services has so far: the services done, each
\* with its files and its result; the ports in use; whether an exception
\* ended the loop
ServicesSoFar ==
    [done |-> <<>>, used_ports |-> {}, raised |-> FALSE, at |-> None]

\* a loop that commits what a service has got before its search raised
ServiceDonePartial(id, mine, envfile, document, acc) ==
    [done |-> acc.done
              \o << [id |-> id,
                     writes |-> ResolveWrites(mine, envfile, document)] >>,
     used_ports |-> mine.used_ports,
     raised |-> mine.raised,
     at |-> IF mine.raised THEN id ELSE None]

\* line 245: the service is done, unless the search of one of its keys
\* raised (at: the service the loop was at), which leaves it and the
\* services after it as they were
ServiceDone(id, mine, envfile, document, acc) ==
    IF mine.raised THEN [acc EXCEPT !.raised = TRUE, !.at = id]
    ELSE [done |-> acc.done
                   \o << [id |-> id,
                          writes |-> ResolveWrites(mine, envfile,
                                                   document)] >>,
          used_ports |-> mine.used_ports,
          raised |-> FALSE,
          at |-> None]

\* lines 188-245: one service
ResolveService(id, svcs, folders, documents, acc, inuse) ==
    IF svcs[id].capability = None THEN acc
    ELSE ServiceDone(id,
                     ResolveKeys(Cap(svcs[id].capability).ports,
                                 PortKeys(Cap(svcs[id].capability).ports),
                                 KeysSoFar(acc.used_ports), inuse),
                     folders[id].env, documents[id], acc)

\* lines 188-245: the services in registry order
RECURSIVE ResolveServices(_, _, _, _, _, _)
ResolveServices(ids, svcs, folders, documents, acc, inuse) ==
    IF ids = <<>> \/ acc.raised THEN acc
    ELSE ResolveServices(Tail(ids), svcs, folders, documents,
                         ResolveService(Head(ids), svcs, folders, documents,
                                        acc, inuse),
                         inuse)

\* the services a run has done, and what it has written for one of them
DoneIds(run) == {run.done[n].id : n \in 1..Len(run.done)}
WritesOf(run, id) ==
    run.done[CHOOSE n \in 1..Len(run.done) : run.done[n].id = id].writes

\* what a run leaves: the folders, the documents, and what the caller gets
\* (no results when it raised)
OutcomeOfRun(folders, documents, run) ==
    [fs |-> [id \in DOMAIN folders |->
                IF id \in DoneIds(run)
                THEN [folders[id] EXCEPT !.env = WritesOf(run, id).env]
                ELSE folders[id]],
     docs |-> [id \in DOMAIN documents |->
                  IF id \in DoneIds(run)
                  THEN [documents[id] EXCEPT
                           !.readme = WritesOf(run, id).readme]
                  ELSE documents[id]],
     report |-> [op |-> "resolve_all_conflicts",
                 outcome |-> IF run.raised THEN "raised" ELSE "returned",
                 results |-> IF run.raised THEN <<>>
                             ELSE [id \in DoneIds(run) |->
                                      WritesOf(run, id).result]]]

\* one call of resolve_all_conflicts on a host where the ports of inuse are
\* bound
ResolveOutcome(svcs, folders, documents, inuse) ==
    OutcomeOfRun(folders, documents,
                 ResolveServices(GetAllServices(svcs), svcs, folders,
                                 documents, ServicesSoFar, inuse))

\* the service:port_key pairs of the registry, services in registry order
\* and the keys of each in the order of its manifest
RECURSIVE ClaimPairs(_, _)
ClaimPairs(ids, svcs) ==
    IF ids = <<>> THEN <<>>
    ELSE IF svcs[Head(ids)].capability = None THEN ClaimPairs(Tail(ids), svcs)
    ELSE LET keys == PortKeys(Cap(svcs[Head(ids)].capability).ports)
         IN  [n \in 1..Len(keys) |-> <<Head(ids), keys[n]>>]
             \o ClaimPairs(Tail(ids), svcs)

\* the lines each detection reads for a service
EnvLines(folders) == [id \in DOMAIN folders |-> folders[id].env]
EnvOrExampleLines(folders, documents) ==
    [id \in DOMAIN folders |->
        ReadEnvFile(folders[id].env, documents[id].example)]

\* lines 340-354 (service_manager.py lines 333-336): the dict from each port
\* to its claimants after the first n pairs
RECURSIVE GroupedByPort(_, _, _, _)
GroupedByPort(pairs, n, svcs, envs) ==
    IF n = 0 THEN [port \in {} |-> <<>>]
    ELSE LET conflicts == GroupedByPort(pairs, n - 1, svcs, envs)
             id == pairs[n][1]
             port == GetConfiguredPorts(svcs[id].capability,
                                        envs[id])[pairs[n][2]]
         IN  [p \in DOMAIN conflicts \cup {port} |->
                 IF p = port
                 THEN (IF p \in DOMAIN conflicts THEN conflicts[p] ELSE <<>>)
                      \o <<pairs[n]>>
                 ELSE conflicts[p]]

\* lines 356-358: a port is reported when it has more than one claimant
IsConflict(svc_list) == Len(svc_list) > 1

ConflictsAmong(svcs, envs) ==
    LET pairs == ClaimPairs(GetAllServices(svcs), svcs)
        conflicts == GroupedByPort(pairs, Len(pairs), svcs, envs)
    IN  [port \in {p \in DOMAIN conflicts : IsConflict(conflicts[p])} |->
            conflicts[port]]

\* ServiceManager.get_port_conflicts
GetPortConflicts(svcs, folders) == ConflictsAmong(svcs, EnvLines(folders))

\* PortConfigurator.get_configured_port_conflicts
GetConfiguredPortConflicts(svcs, folders, documents) ==
    ConflictsAmong(svcs, EnvOrExampleLines(folders, documents))

\* GET /ports/conflicts and the conflict view of the UI
DetectConflicts(by) ==
    /\ loop = "free" /\ ~Pending
    /\ report = NoReport
    /\ services # <<>>
    /\ report' = [op |-> by, outcome |-> "returned",
                  results |->
                      IF by = "get_port_conflicts"
                      THEN GetPortConflicts(services, fs)
                      ELSE GetConfiguredPortConflicts(services, fs, docs)]
    /\ UNCHANGED <<services, fs, procs, call, loop, batch, scanner, captured,
                   docs>>

Detections == {"get_port_conflicts", "get_configured_port_conflicts"}

\* the files and the report a call leaves
ResolveLeaves(out) ==
    /\ fs' = out.fs
    /\ docs' = out.docs
    /\ report' = out.report

\* PortConfigurator.resolve_all_conflicts on a host where the ports of
\* inuse are bound
ResolveAllConflicts(inuse) ==
    /\ loop = "free" /\ ~Pending
    /\ \A id \in DOMAIN call : CallerIdle(id)
    /\ report = NoReport
    /\ services # <<>>
    /\ ResolveLeaves(ResolveOutcome(services, fs, docs, inuse))
    /\ UNCHANGED <<services, procs, call, loop, batch, scanner, captured>>

\* ------------------------------------------------------------------------
\* ServiceManager._start_log_capture: the capture thread of child p
\* ------------------------------------------------------------------------
\* lines 185-189 up to the slice: the thread reads a line and appends it (a
\* line is named by its number in the order of capture); if the buffer has
\* grown beyond its maximum it takes the slice of the last lines, which it
\* has yet to store
CaptureLogs(p) ==
    /\ p \in 1..Len(procs)
    /\ procs[p].state = "alive"
    /\ procs[p].reader # None
    /\ procs[p].sliced = <<>>
    /\ procs[p].reader \in DOMAIN services
    /\ captured[procs[p].reader] < MaxLines
    /\ LET id == procs[p].reader
           line == captured[id] + 1
           logs == Append(services[id].logs, line)
       IN  /\ captured' = [captured EXCEPT ![id] = line]
           /\ services' = [services EXCEPT ![id].logs = logs]
           /\ procs' = IF Len(logs) > LogMax
                        THEN [procs EXCEPT ![p].sliced =
                                 SubSeq(logs, Len(logs) - LogKeep + 1, Len(logs))]
                        ELSE procs
    /\ UNCHANGED <<fs, call, loop, batch, scanner, docs, report>>

\* line 189, the assignment: the slice becomes the buffer
TrimStore(p) ==
    /\ p \in 1..Len(procs)
    /\ procs[p].sliced # <<>>
    /\ procs[p].reader \in DOMAIN services
    /\ services' = [services EXCEPT ![procs[p].reader].logs = procs[p].sliced]
    /\ procs' = [procs EXCEPT ![p].sliced = <<>>]
    /\ UNCHANGED <<fs, call, loop, batch, scanner, captured, docs, report>>

\* ------------------------------------------------------------------------
\* ServiceManager.stop_service
\* ------------------------------------------------------------------------
\* the completion of a stop that forgets to release the ports
StoppedKeepsPorts(service) ==
    [service EXCEPT !.status = STOPPED, !.pid = NoProc, !.process = NoProc]

\* lines 223-226
Stopped(service) ==
    [service EXCEPT !.status = STOPPED, !.pid = NoProc, !.process = NoProc,
                    !.assigned_ports = NoPorts]

\* the stop has completed: stop_service returns, restart_service goes on to
\* its one second sleep (line 248)
StopReturns(id, op, pa, events) ==
    /\ call' = [call EXCEPT ![id] =
                   IF op = "restart"
                   THEN Suspended(op, "restart_sleep", pa, 0, events)
                   ELSE Ended(op, "returned", None, NoResult, events)]
    /\ loop' = IF op = "stop_all" THEN "all" ELSE "free"

\* the except clause of the stop recording the error but not the FAILED status
StopFailsKeepsStatus(id, op, message, events) ==
    /\ services' = [services EXCEPT ![id].error = message]
    /\ call' = [call EXCEPT ![id] =
                   Ended(op, "raised", message, NoResult, events)]
    /\ loop' = IF op = "stop_all" THEN "all" ELSE "free"

\* lines 229-233
StopFails(id, op, message, events) ==
    /\ services' = [services EXCEPT ![id].status = FAILED,
                                    ![id].error = message]
    /\ call' = [call EXCEPT ![id] =
                   Ended(op, "raised", message, NoResult, events)]
    /\ loop' = IF op = "stop_all" THEN "all" ELSE "free"

\* stop_service without the test of line 201: signalling a missing process
\* handle raises
StopBodyNoHandleTest(id, op, pa) ==
    IF id \notin DOMAIN services
    THEN /\ call' = [call EXCEPT ![id] =
                        Ended(op, "raised", "Service not found", NoResult, <<>>)]
         /\ loop' = "free"
         /\ UNCHANGED services
    ELSE IF services[id].process = NoProc
    THEN StopFails(id, op, "signal", <<>>)
    ELSE \/ /\ services' = [services EXCEPT ![id].status = STOPPING]
            /\ call' = [call EXCEPT ![id] =
                           Suspended(op, "term_wait", pa, 0, <<"SIGTERM">>)]
            /\ loop' = id
         \/ StopFails(id, op, "signal", <<>>)

\* lines 197-212, for operation op (stop_service itself, or the stop_service
\* that restart_service calls, which then carries the ports to start with)
StopBody(id, op, pa) ==
    IF id \notin DOMAIN services
    THEN /\ call' = [call EXCEPT ![id] =
                        Ended(op, "raised", "Service not found", NoResult, <<>>)]
         /\ loop' = "free"
         /\ UNCHANGED services
    ELSE IF services[id].process = NoProc
    THEN /\ services' = [services EXCEPT ![id].status = STOPPED]
         /\ StopReturns(id, op, pa, <<>>)
    ELSE \/ \* the graceful signal is sent (line 212)
            /\ services' = [services EXCEPT ![id].status = STOPPING]
            /\ call' = [call EXCEPT ![id] =
                           Suspended(op, "term_wait", pa, 0, <<"SIGTERM">>)]
            /\ loop' = id
         \/ \* signalling raises
            StopFails(id, op, "signal", <<>>)

StopService(id) ==
    /\ loop = "free"
    /\ CallerIdle(id)
    /\ StopBody(id, "stop", NoPorts)
    /\ UNCHANGED <<fs, procs>>
    /\ UNCHANGED aux

\* line 215 returns: the child has exited within the graceful wait
TermWaitExit(id) ==
    /\ loop = id
    /\ call[id].pc = "term_wait"
    /\ Exited(services[id].process)
    /\ services' = [services EXCEPT ![id] = Stopped(@)]
    /\ procs' = Collected(procs, services')
    /\ StopReturns(id, call[id].op, call[id].pa, call[id].events)
    /\ UNCHANGED fs
    /\ UNCHANGED aux

\* a stop that kills after the graceful wait whether or not the child exited
TermWaitAlwaysKills(id) ==
    /\ loop = id
    /\ call[id].pc = "term_wait"
    /\ call' = [call EXCEPT ![id].pc = "kill_wait",
                            ![id].events = @ \o <<"TimeoutExpired", "SIGKILL">>]
    /\ UNCHANGED <<services, loop>>
    /\ UNCHANGED <<fs, procs>>
    /\ UNCHANGED aux

\* lines 216-220: the graceful wait times out and the child is killed
TermWaitTimeout(id) ==
    /\ loop = id
    /\ call[id].pc = "term_wait"
    /\ ~Exited(services[id].process)
    /\ \/ /\ call' = [call EXCEPT ![id].pc = "kill_wait",
                         ![id].events = @ \o <<"TimeoutExpired", "SIGKILL">>]
          /\ UNCHANGED <<services, loop>>
       \/ StopFails(id, call[id].op, "signal",
                    call[id].events \o <<"TimeoutExpired">>)
    /\ UNCHANGED <<fs, procs>>
    /\ UNCHANGED aux

\* line 221 returns: the child has exited after the kill
KillWaitExit(id) ==
    /\ loop = id
    /\ call[id].pc = "kill_wait"
    /\ Exited(services[id].process)
    /\ services' = [services EXCEPT ![id] = Stopped(@)]
    /\ procs' = Collected(procs, services')
    /\ StopReturns(id, call[id].op, call[id].pa, call[id].events)
    /\ UNCHANGED fs
    /\ UNCHANGED aux

\* line 221 raises TimeoutExpired: the child outlived the second wait
KillWaitTimeout(id) ==
    /\ loop = id
    /\ call[id].pc = "kill_wait"
    /\ ~Exited(services[id].process)
    /\ StopFails(id, call[id].op, "wait",
                 call[id].events \o <<"TimeoutExpired">>)
    /\ UNCHANGED <<fs, procs>>
    /\ UNCHANGED aux

\* ------------------------------------------------------------------------
\* ServiceManager.restart_service
\* ------------------------------------------------------------------------
\* a restart that forgets the ports the service held
PortsToUseOverridesOnly(service, port_assignments) == port_assignments

\* lines 244 and 250: the ports the restart starts with
PortsToUse(service, port_assignments) ==
    IF port_assignments # NoPorts THEN port_assignments
    ELSE service.assigned_ports

RestartService(id, port_assignments, host) ==
    /\ loop = "free"
    /\ CallerIdle(id)
    /\ IF id \notin DOMAIN services
       THEN /\ call' = [call EXCEPT ![id] =
                   Ended("restart", "raised", "Service not found", NoResult,
                         @.events)]
            /\ UNCHANGED <<services, procs, loop>>
       ELSE IF IsRunning(services[id])
       THEN /\ StopBody(id, "restart",
                        PortsToUse(services[id], port_assignments))
            /\ UNCHANGED procs
       ELSE StartBody(id, PortsToUse(services[id], port_assignments), host,
                      "restart")
    /\ UNCHANGED fs
    /\ UNCHANGED aux

\* line 251, after the sleep of line 248
RestartResume(id, host) ==
    /\ loop = "free"
    /\ call[id].pc = "restart_sleep"
    /\ StartBody(id, call[id].pa, host, "restart")
    /\ UNCHANGED fs
    /\ UNCHANGED aux

\* ------------------------------------------------------------------------
\* ServiceManager.stop_all_services
\* ------------------------------------------------------------------------
\* line 254: the call takes the list of services; nothing in it awaits
\* anything that suspends, so it keeps the event loop until it returns
StopAllServices ==
    /\ loop = "free"
    /\ batch.pc = "idle"
    /\ \A id \in DOMAIN call : CallerIdle(id)
    /\ batch' = [pc |-> "loop", todo |-> GetAllServices(services),
                 log |-> <<>>]
    /\ loop' = "all"
    /\ UNCHANGED <<services, fs, procs, call, scanner, captured, docs, report>>

\* lines 255-258: the next service of the list; stop_service is entered if
\* it is running
StopAllNext ==
    /\ loop = "all"
    /\ batch.pc = "loop"
    /\ batch.todo # <<>>
    /\ LET id == Head(batch.todo)
       IN  IF IsRunning(services[id])
           THEN /\ StopBody(id, "stop_all", NoPorts)
                /\ batch' = [batch EXCEPT !.pc = "stop"]
           ELSE /\ batch' = [batch EXCEPT
                       !.todo = Tail(@),
                       !.log = Append(@, <<id, "skipped">>)]
                /\ UNCHANGED <<services, call, loop>>
    /\ UNCHANGED <<fs, procs, scanner, captured, docs, report>>

\* a loop without the try of line 257: the exception of a stop ends the call
StopAllNoTry ==
    /\ loop = "all"
    /\ batch.pc = "stop"
    /\ call[Head(batch.todo)].outcome # "none"
    /\ LET id == Head(batch.todo)
       IN  /\ batch' = [batch EXCEPT
                  !.pc = IF call[id].outcome = "raised" THEN "raised"
                         ELSE "loop",
                  !.todo = Tail(@),
                  !.log = Append(@, <<id, call[id].outcome>>)]
           /\ call' = [call EXCEPT ![id] = IdleCall]
           /\ loop' = IF call[id].outcome = "raised" THEN "free" ELSE "all"
    /\ UNCHANGED <<services, fs, procs, scanner, captured, docs, report>>

\* lines 257-260: the stop has returned or raised; an exception is logged
\* and the loop goes on
StopAllHarvest ==
    /\ loop = "all"
    /\ batch.pc = "stop"
    /\ call[Head(batch.todo)].outcome # "none"
    /\ LET id == Head(batch.todo)
       IN  /\ batch' = [batch EXCEPT
                  !.pc = "loop",
                  !.todo = Tail(@),
                  !.log = Append(@, <<id, call[id].outcome>>)]
           /\ call' = [call EXCEPT ![id] = IdleCall]
           /\ loop' = "all"
    /\ UNCHANGED <<services, fs, procs, scanner, captured, docs, report>>

\* the list is exhausted: stop_all_services returns
StopAllReturns ==
    /\ loop = "all"
    /\ batch.pc = "loop"
    /\ batch.todo = <<>>
    /\ batch' = [batch EXCEPT !.pc = "done"]
    /\ loop' = "free"
    /\ UNCHANGED <<services, fs, procs, call, scanner, captured, docs, report>>

\* the caller of stop_all_services takes its result or its exception
ReturnAll ==
    /\ batch.pc \in {"done", "raised"}
    /\ batch' = NoBatch
    /\ UNCHANGED <<services, fs, procs, call, loop, scanner, captured,
                   docs, report>>

\* ------------------------------------------------------------------------
\* ServiceManager.check_service_health
\* ------------------------------------------------------------------------
Result(status, reason, exit_code) ==
    [status |-> status, reason |-> reason, exit_code |-> exit_code]

\* line 272: f"Process exited with code {returncode}"
ExitedWithCode(returncode) ==
    IF returncode = 0 THEN "Process exited with code 0"
    ELSE "Process exited with code 1"

\* check_service_health without the poll of the child of lines 270-273
CheckServiceHealthNoPoll(id) ==
    /\ loop = "free"
    /\ CallerIdle(id)
    /\ LET returns(r) ==
               call' = [call EXCEPT ![id] =
                           Ended("health", "returned", None, r, @.events)]
       IN  IF id \notin DOMAIN services
           THEN /\ returns(Result("error", "Service not found", -1))
                /\ UNCHANGED services
           ELSE IF ~IsRunning(services[id])
           THEN /\ returns(Result("not_running", None, -1))
                /\ UNCHANGED services
           ELSE IF \/ services[id].capability = None
                   \/ Cap(services[id].capability).health_check_path = None
           THEN /\ returns(Result("unknown", "No health check configured", -1))
                /\ UNCHANGED services
           ELSE IF \/ "api" \notin DOMAIN services[id].assigned_ports
                   \/ services[id].assigned_ports["api"] = 0
           THEN /\ returns(Result("unknown", "No API port assigned", -1))
                /\ UNCHANGED services
           ELSE /\ call' = [call EXCEPT ![id] =
                       Suspended("health", "probe", NoPorts, 0, @.events)]
                /\ UNCHANGED services
    /\ UNCHANGED <<fs, procs, loop>>
    /\ UNCHANGED aux

\* lines 263-291, up to the GET of the probe
CheckServiceHealth(id) ==
    /\ loop = "free"
    /\ CallerIdle(id)
    /\ LET returns(r) ==
               call' = [call EXCEPT ![id] =
                           Ended("health", "returned", None, r, @.events)]
       IN  IF id \notin DOMAIN services
           THEN /\ returns(Result("error", "Service not found", -1))
                /\ UNCHANGED services
           ELSE IF ~IsRunning(services[id])
           THEN /\ returns(Result("not_running", None, -1))
                /\ UNCHANGED services
           ELSE IF services[id].process # NoProc
                   /\ Exited(services[id].process)
           THEN /\ services' = [services EXCEPT
                       ![id].status = FAILED,
                       ![id].error = ExitedWithCode(
                           procs[services[id].process].returncode)]
                /\ returns(Result("crashed", None,
                                  procs[services[id].process].returncode))
           ELSE IF \/ services[id].capability = None
                   \/ Cap(services[id].capability).health_check_path = None
           THEN /\ returns(Result("unknown", "No health check configured", -1))
                /\ UNCHANGED services
           ELSE IF \/ "api" \notin DOMAIN services[id].assigned_ports
                   \/ services[id].assigned_ports["api"] = 0
           THEN /\ returns(Result("unknown", "No API port assigned", -1))
                /\ UNCHANGED services
           ELSE /\ call' = [call EXCEPT ![id] =
                       Suspended("health", "probe", NoPorts, 0, @.events)]
                /\ UNCHANGED services
    /\ UNCHANGED <<fs, procs, loop>>
    /\ UNCHANGED aux

\* a probe whose handlers take a refused connection for an unexpected failure
HealthProbeRefusedIsError(id, response) ==
    /\ loop = "free"
    /\ call[id].pc = "probe"
    /\ LET returns(r) ==
               call' = [call EXCEPT ![id] =
                           Ended("health", "returned", None, r, @.events)]
       IN  IF response = "200"
           THEN /\ services' = [services EXCEPT
                       ![id].health_status = "healthy",
                       ![id].last_health_check = Now]
                /\ returns(Result("healthy", None, -1))
           ELSE IF response = "503"
           THEN /\ services' = [services EXCEPT
                       ![id].health_status = "unhealthy"]
                /\ returns(Result("unhealthy", "HTTP 503", -1))
           ELSE IF response = "TimeoutException"
           THEN /\ services' = [services EXCEPT
                       ![id].health_status = "unhealthy"]
                /\ returns(Result("unhealthy", "timeout", -1))
           ELSE /\ services' = [services EXCEPT
                       ![id].health_status = "error"]
                /\ returns(Result("error", "other", -1))
    /\ UNCHANGED <<fs, procs, loop>>
    /\ UNCHANGED aux

\* lines 292-315: the GET of the probe ends
HealthProbe(id, response) ==
    /\ loop = "free"
    /\ call[id].pc = "probe"
    /\ LET returns(r) ==
               call' = [call EXCEPT ![id] =
                           Ended("health", "returned", None, r, @.events)]
       IN  IF response = "200"
           THEN /\ services' = [services EXCEPT
                       ![id].health_status = "healthy",
                       ![id].last_health_check = Now]
                /\ returns(Result("healthy", None, -1))
           ELSE IF response = "503"
           THEN /\ services' = [services EXCEPT
                       ![id].health_status = "unhealthy"]
                /\ returns(Result("unhealthy", "HTTP 503", -1))
           ELSE IF response = "TimeoutException"
           THEN /\ services' = [services EXCEPT
                       ![id].health_status = "unhealthy"]
                /\ returns(Result("unhealthy", "timeout", -1))
           ELSE IF response = "ConnectError"
           THEN /\ services' = [services EXCEPT
                       ![id].health_status = "unhealthy"]
                /\ returns(Result("unhealthy", "connection refused", -1))
           ELSE /\ services' = [services EXCEPT
                       ![id].health_status = "error"]
                /\ returns(Result("error", "other", -1))
    /\ UNCHANGED <<fs, procs, loop>>
    /\ UNCHANGED aux

\* ------------------------------------------------------------------------
\* The caller
\* ------------------------------------------------------------------------
\* the awaiting caller takes the return value or the exception of the call
\* that has just ended, before anything else happens
Return(id) ==
    /\ call[id].outcome # "none"
    /\ call[id].op # "stop_all"
    /\ call' = [call EXCEPT ![id] = IdleCall]
    /\ UNCHANGED <<services, fs, procs, loop>>
    /\ UNCHANGED aux

\* ------------------------------------------------------------------------
\* Specification
\* ------------------------------------------------------------------------
Next ==
    \/ Scan
    \/ \E id \in Ids : RefreshService(id)
    \/ \E id \in Ids, yaml \in CapNames \cup {"malformed"} :
          UpdateServiceCapability(id, yaml)
    \/ \E p \in 1..MaxSpawns, code \in {0, 1} : ChildExit(p, code)
    \/ \E id \in Ids, pa \in PortArgs, h \in Hosts : StartService(id, pa, h)
    \/ \E id \in Ids : StartReadySkipped(id)
    \/ \E id \in Ids : ReadyPoll(id)
    \/ \E id \in Ids, response \in Responses : ReadyGet(id, response)
    \/ \E id \in Ids : GraceCheck(id)
    \/ \E id \in Ids : StopService(id)
    \/ \E id \in Ids : TermWaitExit(id)
    \/ \E id \in Ids : TermWaitTimeout(id)
    \/ \E id \in Ids : KillWaitExit(id)
    \/ \E id \in Ids : KillWaitTimeout(id)
    \/ \E id \in Ids, pa \in PortArgs, h \in Hosts :
          RestartService(id, pa, h)
    \/ \E id \in Ids, h \in Hosts : RestartResume(id, h)
    \/ \E id \in Ids : CheckServiceHealth(id)
    \/ \E id \in Ids, response \in Responses : HealthProbe(id, response)
    \/ \E id \in Ids : Return(id)

Spec == Init /\ [][Next]_vars

\* the scheduling of the event loop: a coroutine that can resume does, every
\* GET and every sleep ends, and so does every bounded wait on a child
Fairness ==
    \A id \in Ids :
        /\ WF_vars(StartReadySkipped(id))
        /\ WF_vars(ReadyPoll(id))
        /\ WF_vars(\E response \in Responses : ReadyGet(id, response))
        /\ WF_vars(GraceCheck(id))
        /\ WF_vars(TermWaitExit(id) \/ TermWaitTimeout(id))
        /\ WF_vars(KillWaitExit(id) \/ KillWaitTimeout(id))
        /\ WF_vars(\E response \in Responses : HealthProbe(id, response))
        /\ WF_vars(Return(id))

FairSpec == Spec /\ Fairness

\* ------------------------------------------------------------------------
\* Port resolution on its own: any environment file, starts only
\* ------------------------------------------------------------------------
InitPorts ==
    /\ services = [id \in {} |-> Service(DISCOVERED, None)]
    /\ fs \in [Ids -> Folders]
    /\ \A id \in Ids : fs[id].entry
    /\ procs = <<>>
    /\ call = [id \in Ids |-> IdleCall]
    /\ loop = "free"
    /\ batch = NoBatch
    /\ scanner = NoScanner
    /\ captured = [id \in Ids |-> 0]
    /\ docs = [id \in Ids |-> NoDocs]
    /\ report = NoReport

NextPorts ==
    \/ Scan
    \/ \E p \in 1..MaxSpawns, code \in {0, 1} : ChildExit(p, code)
    \/ \E id \in Ids, pa \in PortArgs, h \in Hosts : StartService(id, pa, h)
    \/ \E id \in Ids : StartReadySkipped(id)
    \/ \E id \in Ids : ReadyPoll(id)
    \/ \E id \in Ids, response \in Responses : ReadyGet(id, response)
    \/ \E id \in Ids : GraceCheck(id)
    \/ \E id \in Ids : Return(id)

SpecPorts == InitPorts /\ [][NextPorts]_vars

\* ------------------------------------------------------------------------
\* ServiceDiscovery.scan run by a worker thread: the handlers of the UI that
\* are plain functions (scan_all_folders, add_folder, remove_folder) run in
\* the thread pool of the UI framework, beside the event loop and beside
\* the handlers that read the registry
\* ------------------------------------------------------------------------
\* the registry a scan of the folders builds
Rebuilt ==
    [id \in {i \in DOMAIN fs : IsValidService(fs[i])} |-> CreateService(fs[id])]

\* line 22: the registry is cleared; scanner.old is the registry of before
ScanClear ==
    /\ loop = "free" /\ ~Pending
    /\ \A id \in DOMAIN call : CallerIdle(id)
    /\ scanner.pc = "idle"
    /\ scanner' = [pc |-> "fill",
                   todo |-> SelectSeq(IdOrder, LAMBDA i : i \in DOMAIN fs),
                   old |-> services]
    /\ services' = [id \in {} |-> Service(DISCOVERED, None)]
    /\ procs' = Collected(Orphaned(procs), services')
    /\ captured' = [id \in DOMAIN captured |-> 0]
    /\ UNCHANGED <<fs, call, loop, batch, docs, report>>

\* lines 24-39 and 43-55, one folder: a valid service folder is inserted
ScanFolder ==
    /\ scanner.pc = "fill"
    /\ scanner.todo # <<>>
    /\ LET id == Head(scanner.todo)
       IN  services' =
               IF IsValidService(fs[id])
               THEN [i \in DOMAIN services \cup {id} |->
                        IF i = id THEN CreateService(fs[id]) ELSE services[i]]
               ELSE services
    /\ scanner' = [scanner EXCEPT !.todo = Tail(@)]
    /\ UNCHANGED <<fs, procs, call, loop, batch, captured, docs, report>>

\* line 41: the scan returns the list of the services
ScanReturns ==
    /\ scanner.pc = "fill"
    /\ scanner.todo = <<>>
    /\ scanner' = NoScanner
    /\ UNCHANGED <<services, fs, procs, call, loop, batch, captured,
                   docs, report>>

\* two folders of any content, scanned by worker threads one after another
InitScan ==
    /\ services = [id \in {} |-> Service(DISCOVERED, None)]
    /\ fs \in [{"a", "b"} -> Folders]
    /\ \A id \in DOMAIN fs : fs[id].env = NoEnvFile
    /\ procs = <<>>
    /\ call = [id \in {"a", "b"} |-> IdleCall]
    /\ loop = "free"
    /\ batch = NoBatch
    /\ scanner = NoScanner
    /\ captured = [id \in {"a", "b"} |-> 0]
    /\ docs = [id \in {"a", "b"} |-> NoDocs]
    /\ report = NoReport

NextScan ==
    \/ ScanClear
    \/ ScanFolder
    \/ ScanReturns

SpecScan == InitScan /\ [][NextScan]_vars

\* a host on which every capability of the model can start
GoodHost == [free_gb |-> 16, gpu |-> TRUE, vram_free_gb |-> 16]

\* ------------------------------------------------------------------------
\* Automatic ports: two services started with start_service_auto_ports
\* ------------------------------------------------------------------------
InitAuto ==
    /\ services = [id \in {} |-> Service(DISCOVERED, None)]
    /\ fs \in [{"a", "b"} -> Folders]
    /\ \A id \in DOMAIN fs :
          fs[id].entry /\ fs[id].manifest \in {"web", "train"}
                      /\ fs[id].env = NoEnvFile
    /\ procs = <<>>
    /\ call = [id \in {"a", "b"} |-> IdleCall]
    /\ loop = "free"
    /\ batch = NoBatch
    /\ scanner = NoScanner
    /\ captured = [id \in {"a", "b"} |-> 0]
    /\ docs = [id \in {"a", "b"} |-> NoDocs]
    /\ report = NoReport

NextAuto ==
    \/ Scan
    \/ \E p \in 1..MaxSpawns, code \in {0, 1} : ChildExit(p, code)
    \/ \E id \in {"a", "b"}, inuse \in ProbeResults :
          StartServiceAutoPorts(id, inuse, GoodHost)
    \/ \E id \in {"a", "b"} : ReadyPoll(id)
    \/ \E id \in {"a", "b"}, response \in {"200", "503"} :
          ReadyGet(id, response)
    \/ \E id \in {"a", "b"} : GraceCheck(id)
    \/ \E id \in {"a", "b"} : Return(id)

SpecAuto == InitAuto /\ [][NextAuto]_vars

\* ------------------------------------------------------------------------
\* Conflict resolution: three service folders of any content are scanned,
\* their port conflicts detected and resolved
\* ------------------------------------------------------------------------
\* an environment file that sets the API port to the first port of its range
EnvAtRangeMin == << ApiVar \o <<"=", "8", "1", "0", "0">> >>

\* a README that names the API port in a URL, the UI port in a table and a
\* number that is no port
ReadmeOfService ==
    <<"O", "p", "e", "n", " ", "h", "t", "t", "p", ":", "/", "/", "l", "o",
      "c", "a", "l", "h", "o", "s", "t", ":", "8", "0", "0", "0", "/", "d",
      "o", "c", "s", "\n", "|", " ", "u", "i", " ", "|", " ", Backtick, "8",
      "0", "0", "1", Backtick, " ", "|", "\n", "u", "p", " ", "t", "o", " ",
      "8", "0", "0", "0", " ", "u", "s", "e", "r", "s">>

\* the documents of the three folders: none, a .env.example in the first
\* folder, a README in the second, both in the third
ResolveDocs ==
    { [id \in {"a", "b", "c"} |-> NoDocs],
      [id \in {"a", "b", "c"} |->
          IF id = "a" THEN [readme |-> None, example |-> EnvAtRangeMin]
          ELSE NoDocs],
      [id \in {"a", "b", "c"} |->
          IF id = "b" THEN [readme |-> ReadmeOfService, example |-> None]
          ELSE NoDocs],
      [id \in {"a", "b", "c"} |->
          IF id = "c"
          THEN [readme |-> ReadmeOfService, example |-> EnvAtRangeMin]
          ELSE NoDocs] }

\* what the host can have bound: nothing, the first API port, every UI
\* port, every API port but the first
ResolveProbes ==
    ProbeResults
    \cup {PortRange("ui"), PortRange("api") \ {PortMin("api")}}

\* the folders: with a manifest or none, with an environment file or none
ResolveFolders ==
    [entry : {TRUE}, manifest : CapNames \cup {"absent"},
     env : EnvFiles \cup {EnvAtRangeMin}]

InitResolve ==
    /\ services = [id \in {} |-> Service(DISCOVERED, None)]
    /\ fs \in [{"a", "b", "c"} -> ResolveFolders]
    /\ fs["a"].env \in {NoEnvFile, EnvAtRangeMin}
    /\ fs["c"].env \in {NoEnvFile, EnvWithPorts}
    /\ procs = <<>>
    /\ call = [id \in {"a", "b", "c"} |-> IdleCall]
    /\ loop = "free"
    /\ batch = NoBatch
    /\ scanner = NoScanner
    /\ captured = [id \in {"a", "b", "c"} |-> 0]
    /\ docs \in ResolveDocs
    /\ report = NoReport

NextResolve ==
    \/ Scan
    \/ \E by \in Detections : DetectConflicts(by)
    \/ \E inuse \in ResolveProbes : ResolveAllConflicts(inuse)
    \/ TakeReport

SpecResolve == InitResolve /\ [][NextResolve]_vars

\* ------------------------------------------------------------------------
\* The next-free-port search on its own: any kind, claimed ports at the ends
\* of the range, and a host on which nothing, the first ports, all ports or
\* all but the last port of the range are bound
\* ------------------------------------------------------------------------
ClaimedSets(port_type) ==
    SUBSET {PortMin(port_type), PortMin(port_type) + 1, PortMax(port_type)}
BoundSets(port_type) ==
    { {}, {PortMin(port_type)},
      {PortMin(port_type), PortMin(port_type) + 1},
      PortRange(port_type),
      PortRange(port_type) \ {PortMax(port_type)} }

InitSearch ==
    /\ services = [id \in {} |-> Service(DISCOVERED, None)]
    /\ fs = [id \in Ids |->
                [entry |-> TRUE, manifest |-> "web", env |-> NoEnvFile]]
    /\ procs = <<>>
    /\ call = [id \in Ids |-> IdleCall]
    /\ loop = "free"
    /\ batch = NoBatch
    /\ scanner = NoScanner
    /\ captured = [id \in Ids |-> 0]
    /\ docs = [id \in Ids |-> NoDocs]
    /\ report = NoReport

NextSearch ==
    \E op \in {"PortConfigurator", "ServiceManager"}, port_type \in PortTypes :
        \E used_ports \in ClaimedSets(port_type),
           inuse \in BoundSets(port_type) :
            SearchNextPort(op, port_type, used_ports, inuse)

SpecSearch == InitSearch /\ [][NextSearch]_vars

\* ------------------------------------------------------------------------
\* Log capture: a service with a health check is started, possibly again
\* after a failed start, and then its output is captured
\* ------------------------------------------------------------------------
InitLogs ==
    /\ services = [id \in {} |-> Service(DISCOVERED, None)]
    /\ fs = [id \in Ids |->
                [entry |-> TRUE, manifest |-> "web", env |-> NoEnvFile]]
    /\ procs = <<>>
    /\ call = [id \in Ids |-> IdleCall]
    /\ loop = "free"
    /\ batch = NoBatch
    /\ scanner = NoScanner
    /\ captured = [id \in Ids |-> 0]
    /\ docs = [id \in Ids |-> NoDocs]
    /\ report = NoReport

\* no line of output has been captured yet
NoOutputYet == \A id \in DOMAIN captured : captured[id] = 0

ScanBeforeOutput == NoOutputYet /\ Scan
StartBeforeOutput(id) == NoOutputYet /\ StartService(id, NoPorts, GoodHost)
PollBeforeOutput(id) == NoOutputYet /\ ReadyPoll(id)
GetBeforeOutput(id, response) == NoOutputYet /\ ReadyGet(id, response)
ReturnBeforeOutput(id) == NoOutputYet /\ Return(id)

NextLogs ==
    \/ ScanBeforeOutput
    \/ \E id \in Ids : StartBeforeOutput(id)
    \/ \E id \in Ids : PollBeforeOutput(id)
    \/ \E id \in Ids, response \in {"200", "503"} :
          GetBeforeOutput(id, response)
    \/ \E id \in Ids : ReturnBeforeOutput(id)
    \/ \E p \in 1..MaxSpawns : CaptureLogs(p)
    \/ \E p \in 1..MaxSpawns : TrimStore(p)

SpecLogs == InitLogs /\ [][NextLogs]_vars

\* ------------------------------------------------------------------------
\* Two services without a health check, each started and stopped, and
\* stop_all_services
\* ------------------------------------------------------------------------
TwoIds == {"a", "b"}

InitAll ==
    /\ services = [id \in {} |-> Service(DISCOVERED, None)]
    /\ fs = [id \in TwoIds |->
                [entry |-> TRUE, manifest |-> "train", env |-> NoEnvFile]]
    /\ procs = <<>>
    /\ call = [id \in TwoIds |-> IdleCall]
    /\ loop = "free"
    /\ batch = NoBatch
    /\ scanner = NoScanner
    /\ captured = [id \in TwoIds |-> 0]
    /\ docs = [id \in TwoIds |-> NoDocs]
    /\ report = NoReport

NextAll ==
    \/ Scan
    \/ \E p \in 1..MaxSpawns, code \in {0, 1} : ChildExit(p, code)
    \/ \E id \in TwoIds : StartService(id, NoPorts, GoodHost)
    \/ \E id \in TwoIds : GraceCheck(id)
    \/ StopAllServices
    \/ StopAllNext
    \/ StopAllHarvest
    \/ StopAllReturns
    \/ ReturnAll
    \/ \E id \in TwoIds : TermWaitExit(id)
    \/ \E id \in TwoIds : TermWaitTimeout(id)
    \/ \E id \in TwoIds : KillWaitExit(id)
    \/ \E id \in TwoIds : KillWaitTimeout(id)
    \/ \E id \in TwoIds : Return(id)

SpecAll == InitAll /\ [][NextAll]_vars

\* ------------------------------------------------------------------------
\* Properties
\* ------------------------------------------------------------------------
\* a step in which start_service is entered for id on a host reporting h:
\* called directly, or called by restart_service (line 251)
StartServiceCalled(id, h) ==
    \/ \E pa \in PortArgs : StartService(id, pa, h)
    \/ RestartResume(id, h)
    \/ /\ id \in DOMAIN services => ~IsRunning(services[id])
       /\ \E pa \in PortArgs : RestartService(id, pa, h)

\* C1: start_service raises, spawns no process and changes no field of any
\* Service whenever the id is not in the registry, the service has no
\* capability, or the service's status is RUNNING.
StartRejectedLeavesNoTrace ==
    [][\A id \in Ids, pa \in PortArgs, h \in Hosts :
          ( /\ \/ id \notin DOMAIN services
               \/ services[id].capability = None
               \/ services[id].status = RUNNING
            /\ StartService(id, pa, h) )
          => /\ call'[id].outcome = "raised"
             /\ call'[id].exc \in {"Service not found", "has no CAPABILITY.yaml",
                                   "is already running"}
             /\ services' = services
             /\ procs' = procs]_vars

\* a start of a RUNNING service has just been refused
StartOfRunningRefused ==
    \E id \in DOMAIN services :
        /\ call[id].op = "start" /\ call[id].outcome = "raised"
        /\ call[id].exc = "is already running"
        /\ services[id].status = RUNNING
        /\ Len(procs) = 1

\* C2: when the resource gate reports that the capability's declared minimums
\* cannot be met, start_service raises before any process is spawned and
\* leaves status, assigned_ports, error, pid and process unchanged.
InsufficientResourcesNoSideEffects ==
    [][\A id \in Ids, h \in Hosts :
          ( /\ id \in DOMAIN services
            /\ services[id].capability # None
            /\ ~IsRunning(services[id])
            /\ ~CheckResourcesAvailable(
                   h, Cap(services[id].capability).min_vram_gb,
                   Cap(services[id].capability).min_ram_gb,
                   Cap(services[id].capability).gpu_required)
            /\ StartServiceCalled(id, h) )
          => /\ call'[id].outcome = "raised"
             /\ call'[id].exc = "Cannot start"
             /\ Len(procs') = Len(procs)
             /\ services'[id].status = services[id].status
             /\ services'[id].assigned_ports = services[id].assigned_ports
             /\ services'[id].error = services[id].error
             /\ services'[id].pid = services[id].pid
             /\ services'[id].process = services[id].process]_vars

\* a start has just been refused by the resource gate, on a service that a
\* failed start had left with ports, an error and a process handle
StartRefusedByGate ==
    \E id \in DOMAIN services :
        /\ call[id].op = "start" /\ call[id].outcome = "raised"
        /\ call[id].exc = "Cannot start"
        /\ services[id].status = FAILED
        /\ services[id].process # NoProc

\* the messages of the pre-checks of start_service
PrecheckMessages ==
    {"Service not found", "has no CAPABILITY.yaml", "is already running",
     "Cannot start"}

\* a start_service call is past its pre-checks and has not ended
StartInFlight(id) ==
    call[id].pc \in {"ready_skip", "ready_poll", "ready_get", "grace"}

\* a start_service call that passed its pre-checks has ended
StartEnded(id) ==
    /\ call[id].op = "start"
    /\ call[id].outcome # "none"
    /\ call[id].exc \notin PrecheckMessages

NeverRunningWithExitedChild ==
    \A id \in DOMAIN services :
        ( /\ call[id].op = "start"
          /\ call[id].outcome = "returned"
          /\ services[id].process # NoProc )
        => ~Exited(services[id].process)

\* what a reader finds configured for the port variable var in each of the
\* environment files of the model; 0 when the file configures no integer
ConfiguredInFile(envfile, var) ==
    IF envfile = EnvWithPorts
    THEN (IF var = ApiVar THEN 8150 ELSE IF var = UiVar THEN 8200 ELSE 0)
    ELSE 0

\* the port of a declared key: the override, else the integer configured in
\* the environment file for the key's variable, else the manifest default
ExpectedPort(capability, port_key, port_assignments, envfile) ==
    LET config == Cap(capability).ports[port_key]
    IN  IF port_key \in DOMAIN port_assignments
        THEN port_assignments[port_key]
        ELSE IF ConfiguredInFile(envfile, config.env_var) # 0
        THEN ConfiguredInFile(envfile, config.env_var)
        ELSE config.default

\* the decimal text of the port numbers of the model
PortText(n) ==
    CASE n = 0 -> <<"0">>
      [] n = 8000 -> <<"8", "0", "0", "0">>
      [] n = 8001 -> <<"8", "0", "0", "1">>
      [] n = 8150 -> <<"8", "1", "5", "0">>
      [] n = 8200 -> <<"8", "2", "0", "0">>
      [] n = 9000 -> <<"9", "0", "0", "0">>
      [] n = 9001 -> <<"9", "0", "0", "1">>

PortsOnlyWhileActive ==
    \A id \in DOMAIN services :
        services[id].assigned_ports # NoPorts
        => services[id].status \in {STARTING, RUNNING}

\* C7: in every reachable state a Service's process handle and pid are
\* non-null if and only if its status is STARTING, RUNNING or STOPPING.
ProcessIffActive ==
    \A id \in DOMAIN services :
        (services[id].process # NoProc /\ services[id].pid # NoProc)
        <=> services[id].status \in {STARTING, RUNNING, STOPPING}

\* C8: stop_service on a known service without a process handle returns with
\* status STOPPED, sends no signal to any process and never passes through
\* STOPPING or FAILED.
StopWithoutHandleIsNoOp ==
    [][\A id \in Ids :
          ( /\ StopService(id)
            /\ id \in DOMAIN services
            /\ services[id].process = NoProc )
          => /\ call'[id].outcome = "returned"
             /\ call'[id].events = <<>>
             /\ services'[id].status = STOPPED
             /\ services' = [services EXCEPT ![id].status = STOPPED]
             /\ procs' = procs]_vars

\* a stop of a service without a process handle has just returned
StoppedWithoutHandle ==
    \E id \in DOMAIN services :
        /\ call[id].op = "stop" /\ call[id].outcome = "returned"
        /\ call[id].events = <<>>
        /\ services[id].status = STOPPED
        /\ services[id].error # None

\* stop_service has returned normally for a service that had a process handle
StopReturnedWithHandle(id) ==
    /\ call[id].events # <<>>
    /\ \/ call[id].op = "stop" /\ call[id].outcome = "returned"
       \/ call[id].op = "restart" /\ call[id].pc = "restart_sleep"

\* C9: whenever stop_service returns normally for a service that had a
\* process handle, status is STOPPED, pid and process are null and
\* assigned_ports is empty, after the graceful signal or after the kill.
StopReturnsClean ==
    \A id \in DOMAIN services :
        StopReturnedWithHandle(id)
        => /\ services[id].status = STOPPED
           /\ services[id].pid = NoProc
           /\ services[id].process = NoProc
           /\ services[id].assigned_ports = NoPorts

\* a stop has just returned after it had to kill the child
StopReturnedAfterKill ==
    \E id \in DOMAIN services :
        /\ call[id].op = "stop" /\ call[id].outcome = "returned"
        /\ call[id].events = <<"SIGTERM", "TimeoutExpired", "SIGKILL">>
        /\ services[id].status = STOPPED

\* the signals among the events of a stop
Signals(events) ==
    SelectSeq(events, LAMBDA e : e \in {"SIGTERM", "SIGKILL"})

\* C10: during stop_service the graceful signal is always sent first; the
\* kill is sent only after the graceful wait has timed out without the
\* process exiting, and at most once per stop.
GracefulBeforeKill ==
    /\ [](\A id \in Ids :
            /\ Signals(call[id].events)
                  \in {<<>>, <<"SIGTERM">>, <<"SIGTERM", "SIGKILL">>}
            /\ call[id].pc \in {"term_wait", "kill_wait"}
                  => Signals(call[id].events) # <<>>)
    /\ [][\A id \in Ids :
            Signals(call'[id].events) = <<"SIGTERM", "SIGKILL">>
            /\ Signals(call[id].events) # <<"SIGTERM", "SIGKILL">>
            => /\ call[id].pc = "term_wait"
               /\ call[id].events = <<"SIGTERM">>
               /\ call'[id].events = <<"SIGTERM", "TimeoutExpired", "SIGKILL">>
               /\ ~Exited(services[id].process)
               /\ procs' = procs]_vars

\* a stop has sent the kill and waits for the child, which is still alive
KillSentChildAlive ==
    \E id \in DOMAIN services :
        /\ call[id].pc = "kill_wait"
        /\ call[id].events = <<"SIGTERM", "TimeoutExpired", "SIGKILL">>
        /\ ~Exited(services[id].process)

\* stop_service, called directly or by restart_service, has ended for a
\* service that had a process handle
StopEndedWithHandle(id) ==
    \/ StopReturnedWithHandle(id)
    \/ /\ call[id].op \in {"stop", "restart"}
       /\ call[id].outcome = "raised"
       /\ call[id].exc \in {"signal", "wait"}

\* stop_service is inside one of its two bounded waits
StopInFlight(id) == call[id].pc \in {"term_wait", "kill_wait"}

\* C11: stop_service on a service with a process handle always terminates:
\* it returns with status STOPPED or, if signalling or either bounded wait
\* raises, sets status FAILED with error populated and re-raises; the service
\* is never left in STOPPING after the call ends.
StopAlwaysCompletes ==
    /\ [](\A id \in DOMAIN services :
            StopEndedWithHandle(id) =>
               /\ services[id].status # STOPPING
               /\ \/ /\ StopReturnedWithHandle(id)
                     /\ services[id].status = STOPPED
                  \/ /\ call[id].outcome = "raised"
                     /\ services[id].status = FAILED
                     /\ services[id].error \in {"signal", "wait"})
    /\ [](\A id \in DOMAIN services :
            services[id].status = STOPPING => StopInFlight(id))
    /\ \A id \in Ids : StopInFlight(id) ~> ~StopInFlight(id)

\* a stop has just raised because the child outlived the wait after the kill
StopFailedAfterKill ==
    \E id \in DOMAIN services :
        /\ call[id].op = "stop" /\ call[id].outcome = "raised"
        /\ call[id].exc = "wait"
        /\ call[id].events =
               <<"SIGTERM", "TimeoutExpired", "SIGKILL", "TimeoutExpired">>
        /\ services[id].status = FAILED

\* the start_service that a restart_service call makes for id has passed its
\* pre-checks in this step
RestartStarts(id) ==
    /\ call'[id].op = "restart"
    /\ call'[id].exc \notin PrecheckMessages
    /\ call'[id].pc \notin {"term_wait", "restart_sleep"}
    /\ call'[id].exc \notin {"signal", "Service not found"}

\* the ports a restart_service call with overrides pa has to start with
HeldOrOverride(service, pa) ==
    IF pa # NoPorts THEN pa ELSE service.assigned_ports

\* C12 as stated: restart_service without overrides on a service that holds
\* assigned_ports starts it again with exactly the ports it held before the
\* restart; with overrides, those are used instead.
RestartKeepsExactlyHeldPorts ==
    [][\A id \in Ids, h \in Hosts :
          /\ ( /\ call[id].pc = "restart_sleep"
               /\ call[id].pa \notin PortArgs
               /\ RestartResume(id, h)
               /\ RestartStarts(id) )
             => services'[id].assigned_ports = call[id].pa
          /\ \A pa \in PortArgs :
               ( /\ id \in DOMAIN services
                 /\ CallerIdle(id)
                 /\ call'[id].op = "restart"
                 /\ RestartService(id, pa, h) )
               => /\ call'[id].pc \in {"term_wait", "restart_sleep"}
                     => call'[id].pa = HeldOrOverride(services[id], pa)
                  /\ (RestartStarts(id) /\ pa # NoPorts)
                     => \A k \in DOMAIN pa :
                           services'[id].assigned_ports[k] = pa[k]
                  /\ ( /\ RestartStarts(id) /\ pa = NoPorts
                       /\ services[id].assigned_ports # NoPorts )
                     => services'[id].assigned_ports
                           = services[id].assigned_ports]_vars

\* C12, amended: restart_service without overrides on a service that holds
\* assigned_ports starts it again with every port it held before the restart
\* unchanged; a port key the capability has come to declare since gets its
\* configured port.  With overrides, those are used instead.
RestartKeepsHeldPorts ==
    [][\A id \in Ids, h \in Hosts :
          /\ ( /\ call[id].pc = "restart_sleep"
               /\ RestartResume(id, h)
               /\ RestartStarts(id) )
             => \A k \in DOMAIN call[id].pa :
                   /\ k \in DOMAIN services'[id].assigned_ports
                   /\ services'[id].assigned_ports[k] = call[id].pa[k]
          /\ \A pa \in PortArgs :
               ( /\ id \in DOMAIN services
                 /\ CallerIdle(id)
                 /\ call'[id].op = "restart"
                 /\ RestartService(id, pa, h) )
               => /\ call'[id].pc \in {"term_wait", "restart_sleep"}
                     => call'[id].pa = HeldOrOverride(services[id], pa)
                  /\ RestartStarts(id)
                     => \A k \in DOMAIN HeldOrOverride(services[id], pa) :
                           /\ k \in DOMAIN services'[id].assigned_ports
                           /\ services'[id].assigned_ports[k]
                                 = HeldOrOverride(services[id], pa)[k]]_vars

\* a restart without overrides has started a service again on the ports it
\* held, one of them under a key its capability no longer declares
RestartedOnHeldPorts ==
    \E id \in DOMAIN services :
        /\ call[id].op = "restart"
        /\ services[id].status = STARTING
        /\ services[id].capability = "train"
        /\ services[id].assigned_ports =
               [k \in {"api", "ui"} |-> IF k = "api" THEN 9000 ELSE 8001]

\* what check_service_health is to report, and to record in health_status,
\* for each way the GET of a probe can end
Classification(response) ==
    CASE response = "200" -> Result("healthy", None, -1)
      [] response = "503" -> Result("unhealthy", "HTTP 503", -1)
      [] response = "TimeoutException" -> Result("unhealthy", "timeout", -1)
      [] response = "ConnectError" ->
             Result("unhealthy", "connection refused", -1)
      [] response = "other" -> Result("error", "other", -1)

\* C14: for a RUNNING service whose process is alive, check_service_health
\* classifies a single probe as healthy on HTTP 200; unhealthy on a non-200
\* response, on timeout or on connection refused, each with its reason;
\* unknown when no health path is configured or no "api" port is assigned;
\* error on any other failure; health_status is set to the classification of
\* the probe outcome.
HealthClassification ==
    [][\A id \in Ids :
          /\ ( /\ id \in DOMAIN services
               /\ call'[id].op = "health"
               /\ IsRunning(services[id])
               /\ services[id].process # NoProc
               /\ ~Exited(services[id].process)
               /\ CheckServiceHealth(id) )
             => IF Cap(services[id].capability).health_check_path = None
                THEN /\ call'[id].ret.status = "unknown"
                     /\ call'[id].ret.reason = "No health check configured"
                     /\ services' = services
                ELSE IF \/ "api" \notin DOMAIN services[id].assigned_ports
                        \/ services[id].assigned_ports["api"] = 0
                THEN /\ call'[id].ret.status = "unknown"
                     /\ call'[id].ret.reason = "No API port assigned"
                     /\ services' = services
                ELSE /\ call'[id].pc = "probe"
                     /\ services' = services
          /\ \A response \in Responses :
               ( /\ call[id].pc = "probe"
                 /\ HealthProbe(id, response) )
               => /\ call'[id].outcome = "returned"
                  /\ call'[id].ret = Classification(response)
                  /\ services'[id].health_status
                        = Classification(response).status
                  /\ services'[id].status = services[id].status]_vars

\* a probe of a RUNNING service has just been refused the connection
ProbeRefused ==
    \E id \in DOMAIN services :
        /\ call[id].op = "health" /\ call[id].outcome = "returned"
        /\ call[id].ret = Result("unhealthy", "connection refused", -1)
        /\ services[id].status = RUNNING
        /\ services[id].health_status = "unhealthy"

\* C15: check_service_health on a RUNNING service whose child process has
\* exited sets status FAILED, records the exit code in error and returns
\* "crashed" with that exit code, without issuing any HTTP probe.
CrashDetected ==
    [][\A id \in Ids :
          ( /\ id \in DOMAIN services
            /\ call'[id].op = "health"
            /\ IsRunning(services[id])
            /\ services[id].process # NoProc
            /\ Exited(services[id].process)
            /\ CheckServiceHealth(id) )
          => LET returncode == procs[services[id].process].returncode
             IN  /\ services'[id].status = FAILED
                 /\ services'[id].error = ExitedWithCode(returncode)
                 /\ call'[id].outcome = "returned"
                 /\ call'[id].pc # "probe"
                 /\ call'[id].ret = Result("crashed", None, returncode)]_vars

\* a health check has just found the child of a RUNNING service exited with
\* code 1
CrashReported ==
    \E id \in DOMAIN services :
        /\ call[id].op = "health" /\ call[id].outcome = "returned"
        /\ call[id].ret = Result("crashed", None, 1)
        /\ services[id].status = FAILED
        /\ services[id].error = "Process exited with code 1"

\* C13: stop_all_services attempts stop_service on every service that is
\* RUNNING when it is reached, even when stopping an earlier service raised,
\* and never raises itself.
StopAllAttemptsEach ==
    /\ [](batch.pc # "raised")
    /\ [][(batch.pc # "done" /\ batch'.pc = "done")
          => /\ batch.todo = <<>>
             /\ Len(batch.log) = Len(GetAllServices(services))
             /\ \A i \in 1..Len(batch.log) :
                   batch.log[i][1] = GetAllServices(services)[i]]_vars
    /\ [][(batch.pc = "loop" /\ batch.todo # <<>> /\ batch'.pc # "loop")
          => LET id == Head(batch.todo)
             IN  IsRunning(services[id]) <=>
                    /\ batch'.pc = "stop"
                    /\ call'[id].op = "stop_all"
                    /\ \/ call'[id].events = <<"SIGTERM">>
                       \/ call'[id].exc = "signal"]_vars
    /\ [][( /\ batch.pc = "loop" /\ batch.todo # <<>>
            /\ batch'.pc = "loop" /\ batch' # batch )
          => /\ ~IsRunning(services[Head(batch.todo)])
             /\ batch'.log = Append(batch.log, <<Head(batch.todo), "skipped">>)
             /\ services' = services]_vars

\* stop_all_services has returned after the stop of the first service raised
\* and the stop of the second returned
StoppedAllPastFailure ==
    /\ batch.pc = "done"
    /\ batch.log = << <<"a", "raised">>, <<"b", "returned">> >>
    /\ services["a"].status = FAILED
    /\ services["b"].status = STOPPED

\* C17: at any time each service has at most one live background log reader
\* appending to its log buffer, and exactly one while it is RUNNING (with its
\* child alive), after any sequence of start, failed start, stop and restart
\* operations.
OneReaderPerService ==
    \A id \in DOMAIN services :
        /\ Cardinality(LiveReaders(id)) <= 1
        /\ ( /\ services[id].status = RUNNING
             /\ services[id].process # NoProc
             /\ ~Exited(services[id].process) )
           => Cardinality(LiveReaders(id)) = 1

\* a capture thread of service id has taken its slice and not yet stored it
TrimPending(id) ==
    \E p \in 1..Len(procs) : procs[p].reader = id /\ procs[p].sliced # <<>>

\* C16: after any sequence of captured output lines, a service's log buffer
\* never holds more than the fixed maximum (1000 lines), and its content is
\* always the most recent captured lines in capture order: trimming removes
\* only the oldest entries.
LogBufferMostRecent ==
    \A id \in DOMAIN services :
        ~TrimPending(id)
        => LET logs == services[id].logs
           IN  /\ Len(logs) <= LogMax
               /\ \A i \in 1..Len(logs) :
                     logs[i] = captured[id] - Len(logs) + i

\* C18: a reader calling get_service or get_all_services concurrently with
\* scan() observes either the complete registry from before the scan or the
\* complete registry after it, never an empty or partially rebuilt registry:
\* while a scan is under way the registry is the old one or the rebuilt one.
ScanAtomicForReaders ==
    scanner.pc = "fill" => services \in {scanner.old, Rebuilt}

\* the port numbers a service has been assigned
PortNumbers(service) ==
    {service.assigned_ports[k] : k \in DOMAIN service.assigned_ports}

\* C19: two overlapping start_service_auto_ports operations on different
\* service ids never assign the same port number to both services (the ports
\* claimed by a service that is still STARTING count as claimed).
AutoPortsNeverShared ==
    \A i \in DOMAIN services, j \in DOMAIN services :
        (i # j /\ StartInFlight(i) /\ StartInFlight(j))
        => PortNumbers(services[i]) \cap PortNumbers(services[j]) = {}

\* the port a service is configured with for a key, given the folders
ConfiguredPort(id, port_key, folders) ==
    GetConfiguredPorts(services[id].capability, folders[id].env)[port_key]

\* the services of the registry, in its order, whose capability declares the
\* port key (in the model every capability declares the same default for a
\* key)
Claimants(port_key) ==
    SelectSeq(GetAllServices(services),
              LAMBDA i : /\ services[i].capability # None
                         /\ port_key \in DOMAIN Cap(services[i].capability).ports)

\* the step has left the first claimant its port and has given the others
\* pairwise distinct ports of the range, read back from their files
ResolvedAmong(claimants, port_key) ==
    /\ claimants # <<>>
       => ConfiguredPort(claimants[1], port_key, fs')
              = ConfiguredPort(claimants[1], port_key, fs)
    /\ \A n \in 2..Len(claimants) :
          LET port == ConfiguredPort(claimants[n], port_key, fs')
          IN  /\ port \in PortRange(port_key)
              /\ port # Cap(services[claimants[n]].capability)
                            .ports[port_key].default
              /\ \A m \in 2..Len(claimants) :
                    m # n => ConfiguredPort(claimants[m], port_key, fs') # port

ResolveStep == \E inuse \in ProbeResults : ResolveAllConflicts(inuse)

\* C20: given N services with capabilities that all declare the
\* same default port for a port key, resolve_all_conflicts lets exactly one
\* (the first in registry order) keep the default and gives the other N-1
\* pairwise distinct ports inside the configured range for that port kind,
\* each written under the port's env_var into that service's environment
\* file.
ResolveReassignsAllClaimants ==
    [][ResolveStep
       => \A port_key \in {"api", "ui"} :
             ResolvedAmong(Claimants(port_key), port_key)]_vars

\* the ports of the kind's range that are neither claimed nor bound
FreePorts(port_type, used_ports, inuse) ==
    {port \in PortRange(port_type) :
        port \notin used_ports /\ port \notin inuse}

AllClaimPairs ==
    {pair \in (DOMAIN services) \X {"api", "ui"} :
        /\ services[pair[1]].capability # None
        /\ pair[2] \in DOMAIN Cap(services[pair[1]].capability).ports}

\* the port a pair resolves to: the override of the environment file (the
\* .env.example while there is no .env) if present, else the default
ResolvesTo(claimant) ==
    GetConfiguredPorts(services[claimant[1]].capability,
                       ReadEnvFile(fs[claimant[1]].env,
                                   docs[claimant[1]].example))[claimant[2]]

ClaimantsOfPort(p) == {pair \in AllClaimPairs : ResolvesTo(pair) = p}

ConflictingPorts ==
    {port \in {ResolvesTo(pair) : pair \in AllClaimPairs} :
        Cardinality(ClaimantsOfPort(port)) > 1}

\* the ports reported are the conflicting ones, each with all its claimants,
\* each claimant once
DetectionExact(results) ==
    /\ DOMAIN results = ConflictingPorts
    /\ \A port \in DOMAIN results :
          /\ {results[port][n] : n \in 1..Len(results[port])}
                 = ClaimantsOfPort(port)
          /\ Len(results[port]) = Cardinality(ClaimantsOfPort(port))

\* a detection returns
DetectStep == report = NoReport /\ report'.op \in Detections

\* C24: conflict detection returns exactly the ports that more than one
\* service:port_key pair resolves to (override of the environment file if
\* present, else the default), each with all its claimants, each claimant
\* once; a port with one claimant is never reported
ConflictDetectionExact ==
    [][DetectStep => DetectionExact(report'.results)]_vars

\* ------------------------------------------------------------------------
\* C21: what a resolution leaves
\* ------------------------------------------------------------------------
\* a call of resolve_all_conflicts has returned and its report is not yet
\* taken: the folders are as the call left them
ResolveReturned ==
    /\ report.op = "resolve_all_conflicts"
    /\ report.outcome = "returned"

\* C21: after resolve_all_conflicts completes without error, conflict
\* detection over the resolved ports (environment-file override if present,
\* else manifest default) reports no conflict, whatever the defaults and
\* overrides were before the call.
NoConflictAfterResolve ==
    ResolveReturned
        => DOMAIN GetConfiguredPortConflicts(services, fs, docs) = {}

\* ------------------------------------------------------------------------
\* C22: a second resolution
\* ------------------------------------------------------------------------
\* a run reports no port change for any service
ReportsNoChange(out) ==
    /\ out.report.outcome = "returned"
    /\ \A id \in DOMAIN out.report.results :
          /\ out.report.results[id].changes = <<>>
          /\ ~out.report.results[id].updated

\* a run leaves every environment file and every README as the step before
\* it has left them
LeavesFilesOfStep(out) ==
    /\ out.fs = fs'
    /\ out.docs = docs'

\* a call that returns, on a host where the ports of inuse are bound
ResolveReturns(inuse) ==
    /\ ResolveAllConflicts(inuse)
    /\ report'.outcome = "returned"

\* C22: running resolve_all_conflicts twice in a row with no other change in
\* between produces no additional change the second time: the second run
\* reports no port changes and leaves every environment file and README as
\* the first run left it.
SecondResolveChangesNothing ==
    [][\A inuse \in ResolveProbes :
          ResolveReturns(inuse)
              => /\ ReportsNoChange(ResolveOutcome(services, fs', docs',
                                                   inuse))
                 /\ LeavesFilesOfStep(ResolveOutcome(services, fs', docs',
                                                     inuse))]_vars

\* ------------------------------------------------------------------------
\* C25: a resolution that runs out of ports
\* ------------------------------------------------------------------------
\* the loop of a call over the services of the registry
ResolveRun(inuse) ==
    ResolveServices(GetAllServices(services), services, fs, docs,
                    ServicesSoFar, inuse)

\* a step in which a call of resolve_all_conflicts raised
ResolveRaisedStep ==
    /\ report = NoReport
    /\ report'.op = "resolve_all_conflicts"
    /\ report'.outcome = "raised"

\* the services before the one at position n that have a capability
EarlierServices(ids, n) ==
    {ids[m] : m \in {k \in 1..(n - 1) : services[ids[k]].capability # None}}

\* the keys of a service for which the loop had to search a port: a service
\* before it declares the key with an env_var too
SearchedKeys(id, earlier) ==
    {port_key \in DOMAIN Cap(services[id].capability).ports :
        /\ Cap(services[id].capability).ports[port_key].env_var # NoVar
        /\ \E other \in earlier :
              /\ port_key \in DOMAIN Cap(services[other].capability).ports
              /\ Cap(services[other].capability).ports[port_key].env_var
                     # NoVar}

\* the position of a service in registry order
PositionOf(ids, id) == CHOOSE n \in 1..Len(ids) : ids[n] = id

\* the step has written nothing for the service the search raised at, and
\* the services before it read their new ports from their files
NothingPartial(ids, at) ==
    /\ fs'[at] = fs[at]
    /\ docs'[at] = docs[at]
    /\ \A id \in EarlierServices(ids, PositionOf(ids, at)) :
          \A port_key \in SearchedKeys(id, EarlierServices(ids,
                                               PositionOf(ids, id))) :
             ConfiguredPort(id, port_key, fs') \in PortRange(port_key)

\* C25: when the next-free-port search exhausts its range while
\* resolve_all_conflicts processes a service, nothing is written to that
\* service's environment file or README, while the environment files
\* already written for earlier services in the batch keep their new values.
ExhaustionWritesNothingPartial ==
    [][\A inuse \in ResolveProbes :
          (ResolveRaisedStep /\ ResolveAllConflicts(inuse))
              => NothingPartial(GetAllServices(services),
                                ResolveRun(inuse).at)]_vars

\* a call has raised at a service that had a port before the search failed,
\* after a service the same call had reassigned
ExhaustedAfterWrites ==
    /\ report.op = "resolve_all_conflicts"
    /\ report.outcome = "raised"
    /\ "a" \in DOMAIN services /\ services["a"].capability = "web"
    /\ "b" \in DOMAIN services /\ services["b"].capability = "train"
    /\ "c" \in DOMAIN services /\ services["c"].capability = "web"
    /\ fs["a"].env = NoEnvFile
    /\ fs["b"].env = WriteEnvFile(NoEnvFile, << <<ApiVar, PortMin("api")>> >>)
    /\ fs["c"].env = NoEnvFile

\* ------------------------------------------------------------------------
\* C26: the results of a resolution
\* ------------------------------------------------------------------------
\* the services that resolve_all_conflicts processes (line 189)
ServicesWithCapability ==
    {id \in DOMAIN services : services[id].capability # None}

\* C26: in resolve_all_conflicts, a failure while processing one service does
\* not abort the processing of the remaining services: every service with a
\* capability gets an entry in the returned per-service results.
EveryServiceGetsResult ==
    report.op = "resolve_all_conflicts"
        => /\ report.outcome = "returned"
           /\ ServicesWithCapability \subseteq DOMAIN report.results

\* ------------------------------------------------------------------------
\* write_env_file on its own: the environment file of folder a, with any of
\* the files below or none, with or without a .env.example, is written with
\* one or two ports
\* ------------------------------------------------------------------------
\* a commented assignment, an assignment with blanks around it, a variable
\* that is no port
EnvCommented ==
    << <<"#">> \o ApiVar \o <<"=", "8", "0", "0", "0">>,
       <<" ", " ">> \o UiVar \o <<" ", "=", " ", "8", "0", "0", "1", " ">>,
       <<"O", "T", "H", "E", "R", "=", "1">> >>

WrittenEnvFiles == EnvFiles \cup {EnvAtRangeMin, EnvCommented}

\* the updates of a call: a dict of one or two variables
WrittenPorts == {PortMin("api"), PortMin("ui")}
EnvUpdates ==
    {<< <<env_var, port>> >> : env_var \in {ApiVar, UiVar},
                               port \in WrittenPorts}
    \cup {<< <<ApiVar, first>>, <<UiVar, second>> >> :
              first \in WrittenPorts, second \in WrittenPorts}
    \cup {<< <<UiVar, first>>, <<ApiVar, second>> >> :
              first \in WrittenPorts, second \in WrittenPorts}

\* PortConfigurator.write_env_file(folder a / ".env", updates)
WriteEnv(updates) ==
    /\ report = NoReport
    /\ fs' = [fs EXCEPT !["a"].env =
                 WriteEnvFile(ReadEnvFile(fs["a"].env, docs["a"].example),
                              updates)]
    /\ report' = [op |-> "write_env_file", outcome |-> "returned",
                  results |-> updates]
    /\ UNCHANGED <<services, procs, call, loop, batch, scanner, captured,
                   docs>>

InitEnvWrite ==
    /\ services = [id \in {} |-> Service(DISCOVERED, None)]
    /\ fs \in [Ids -> [entry : {TRUE}, manifest : {"web"},
                       env : WrittenEnvFiles]]
    /\ procs = <<>>
    /\ call = [id \in Ids |-> IdleCall]
    /\ loop = "free"
    /\ batch = NoBatch
    /\ scanner = NoScanner
    /\ captured = [id \in Ids |-> 0]
    /\ docs \in [Ids -> {NoDocs, [readme |-> None, example |-> EnvWithPorts]}]
    /\ report = NoReport

NextEnvWrite ==
    \/ \E updates \in EnvUpdates : WriteEnv(updates)
    \/ TakeReport

SpecEnvWrite == InitEnvWrite /\ [][NextEnvWrite]_vars

\* ------------------------------------------------------------------------
\* C27: what write_env_file writes
\* ------------------------------------------------------------------------
\* a line that sets a variable as read_env_file reads it: no comment, no
\* blank line, with a "="; and the variable it sets
SetsVariable(line) ==
    /\ Strip(line) # <<>>
    /\ Head(Strip(line)) # "#"
    /\ Contains(Strip(line), "=")
KeyRead(line) == Strip(PartitionKey(Strip(line)))
Sets(line, keys) == SetsVariable(line) /\ KeyRead(line) \in keys

\* the value of a variable in the updates
ValueIn(updates, key) ==
    updates[CHOOSE n \in 1..Len(updates) : updates[n][1] = key][2]

\* the variables of the updates that no line of the file sets, in the order
\* of the updates
RECURSIVE NewKeys(_, _, _)
NewKeys(updates, n, lines) ==
    IF n > Len(updates) THEN <<>>
    ELSE (IF \E i \in 1..Len(lines) : Sets(lines[i], {updates[n][1]})
          THEN <<>> ELSE <<updates[n][1]>>)
         \o NewKeys(updates, n + 1, lines)

\* the lines before keep their place: those of other variables as they
\* were, those of an updated variable as key=value
LinesInPlace(before, after, updates) ==
    /\ Len(after) >= Len(before)
    /\ \A i \in 1..Len(before) :
          IF Sets(before[i], UpdatedVars(updates))
          THEN after[i] = KeyRead(before[i]) \o <<"=">>
                          \o IntToText(ValueIn(updates, KeyRead(before[i])))
          ELSE after[i] = before[i]

\* after them come the variables that did not occur, each under the marker
AppendedUnderMarker(before, after, added, updates) ==
    /\ Len(after) = Len(before) + 3 * Len(added)
    /\ \A n \in 1..Len(added) :
          /\ after[Len(before) + 3 * n - 2] = <<>>
          /\ after[Len(before) + 3 * n - 1] = ConfiguredByAgent
          /\ after[Len(before) + 3 * n]
                 = added[n] \o <<"=">> \o IntToText(ValueIn(updates, added[n]))

\* reading the file yields the updates
ReadsUpdates(after, updates) ==
    \A n \in 1..Len(updates) :
       /\ updates[n][1] \in DOMAIN ParseEnvLines(after, Len(after))
       /\ ParseEnvLines(after, Len(after))[updates[n][1]]
              = IntToText(updates[n][2])

WrittenAsClaimed(before, after, updates) ==
    /\ LinesInPlace(before, after, updates)
    /\ AppendedUnderMarker(before, after,
                           NewKeys(updates, 1, before), updates)
    /\ ReadsUpdates(after, updates)

WriteStep == report = NoReport /\ report'.op = "write_env_file"

\* C27: write_env_file(path, updates) leaves every line whose key is not in
\* updates (comment and blank lines included) unchanged and in its original
\* relative order, rewrites each existing line whose key is in updates in
\* place as key=value, and appends a key under a marker comment only if the
\* key did not occur in the file; afterwards reading the file yields
\* updates[k] for every k in updates.
WriteEnvFileFrame ==
    [][WriteStep
       => WrittenAsClaimed(ReadEnvFile(fs["a"].env, docs["a"].example),
                           fs'["a"].env, report'.results)]_vars

\* a file with a comment has got one variable rewritten in place and the
\* other appended under the marker
EnvRewrittenAndAppended ==
    /\ report.op = "write_env_file"
    /\ Len(report.results) = 2
    /\ \E i, j, k \in 1..Len(fs["a"].env) :
          /\ i < j /\ j < k
          /\ fs["a"].env[i] = <<"#">> \o ApiVar \o <<"=", "8", "0", "0", "0">>
          /\ fs["a"].env[j]
                 = UiVar \o <<"=">>
                   \o IntToText(ValueIn(report.results, UiVar))
          /\ fs["a"].env[k] = ConfiguredByAgent
          /\ k + 1 = Len(fs["a"].env)
          /\ fs["a"].env[k + 1]
                 = ApiVar \o <<"=">>
                   \o IntToText(ValueIn(report.results, ApiVar))

\* ------------------------------------------------------------------------
\* update_readme_ports on its own: the README of folder a, made of two of
\* the lines below or absent, is updated with the changes of a resolution
\* ------------------------------------------------------------------------
\* a URL of the service
UrlLine ==
    <<"h", "t", "t", "p", ":", "/", "/", "l", "o", "c", "a", "l", "h", "o",
      "s", "t", ":", "8", "0", "0", "0", "/", "d", "o", "c", "s", "\n">>
\* a table row with both ports
TableLine ==
    <<"|", " ", "u", "i", " ", "|", " ", Backtick, "8", "0", "0", "1",
      Backtick, " ", "|", " ", "8", "0", "0", "0", " ", "|", "\n">>
\* an assignment
ValueLine ==
    <<"A", "P", "I", "_", "P", "O", "R", "T", " ", "=", " ", "8", "0", "0",
      "0", " ", "#", " ", "a", "p", "i", "\n">>
\* flags
FlagLine ==
    <<"r", "u", "n", " ", "-", "-", "a", "p", "i", "-", "p", "o", "r", "t",
      " ", "8", "0", "0", "0", " ", "-", "p", " ", "8", "0", "0", "1",
      "\n">>
\* a time and two bare ports
TimeLine ==
    <<"a", "t", " ", "1", "0", ":", "0", "0", " ", "o", "n", " ", "1", "2",
      "7", ".", "0", ".", "0", ".", "1", ":", "8", "0", "0", "0", ",", " ",
      ":", "8", "0", "0", "1", ")", "\n">>
\* numbers that are no ports
PlainLine ==
    <<"u", "p", " ", "t", "o", " ", "8", "0", "0", "0", " ", "u", "s", "e",
      "r", "s", ",", " ", "8", "0", "0", "1", " ", "j", "o", "b", "s",
      "\n">>
\* numbers that contain the digits of a port
LongerLine ==
    <<"h", "t", "t", "p", ":", "/", "/", "l", "o", "c", "a", "l", "h", "o",
      "s", "t", ":", "8", "0", "0", "0", "1", " ", "=", "1", "8", "0", "0",
      "0", "\n">>
\* a URL of another host and a short number
OtherLine ==
    <<"h", "t", "t", "p", ":", "/", "/", "e", "x", "a", "m", "p", "l", "e",
      ".", "c", "o", "m", ":", "8", "0", "0", "0", " ", "|", " ", "8", "1",
      " ", "|", "\n">>
ReadmeLines ==
    {UrlLine, TableLine, ValueLine, FlagLine,
     TimeLine, PlainLine, LongerLine, OtherLine}

\* the READMEs: two of the lines
Readmes == {first \o second : first \in ReadmeLines, second \in ReadmeLines}

\* the changes of a call: one port, a port that stays, both ports
ReadmeChanges ==
    { << <<8000, PortMin("api")>> >>,
      << <<8001, PortMin("ui")>> >>,
      << <<8000, 8000>> >>,
      << <<8000, PortMin("api")>>, <<8001, PortMin("ui")>> >> }

\* PortConfigurator.update_readme_ports(folder a, port_changes)
UpdateReadme(port_changes) ==
    /\ report = NoReport
    /\ docs' = [docs EXCEPT !["a"].readme =
                   UpdateReadmePorts(docs["a"].readme, port_changes).readme]
    /\ report' = [op |-> "update_readme_ports", outcome |-> "returned",
                  results |->
                      [port_changes |-> port_changes,
                       updated |->
                           UpdateReadmePorts(docs["a"].readme,
                                             port_changes).updated]]
    /\ UNCHANGED <<services, fs, procs, call, loop, batch, scanner,
                   captured>>

InitReadme ==
    /\ services = [id \in {} |-> Service(DISCOVERED, None)]
    /\ fs = [id \in Ids |->
                [entry |-> TRUE, manifest |-> "web", env |-> NoEnvFile]]
    /\ procs = <<>>
    /\ call = [id \in Ids |-> IdleCall]
    /\ loop = "free"
    /\ batch = NoBatch
    /\ scanner = NoScanner
    /\ captured = [id \in Ids |-> 0]
    /\ \/ docs \in [Ids -> [readme : Readmes, example : {None}]]
       \/ docs = [id \in Ids |-> NoDocs]
    /\ report = NoReport

NextReadme ==
    \/ \E port_changes \in ReadmeChanges : UpdateReadme(port_changes)
    \/ TakeReport

SpecReadme == InitReadme /\ [][NextReadme]_vars

\* ------------------------------------------------------------------------
\* C28: what update_readme_ports rewrites
\* ------------------------------------------------------------------------
\* the end of the run of digits, or of other characters, that starts at i
RECURSIVE RunEnd(_, _)
RunEnd(s, i) ==
    IF i < Len(s) /\ IsDigit(s[i + 1]) = IsDigit(s[i])
    THEN RunEnd(s, i + 1) ELSE i

\* a text as the sequence of its numbers and of what is between them
RECURSIVE RunsOf(_, _, _)
RunsOf(s, i, runs) ==
    IF Len(runs) > Len(s) \/ i > Len(s) THEN runs
    ELSE RunsOf(s, RunEnd(s, i) + 1, runs \o <<SubSeq(s, i, RunEnd(s, i))>>)

\* a text without the blanks at its end, and without a backtick at its end
RECURSIVE WithoutBlanks(_)
WithoutBlanks(s) ==
    IF s # <<>> /\ IsSpace(s[Len(s)])
    THEN WithoutBlanks(SubSeq(s, 1, Len(s) - 1)) ELSE s
WithoutBacktick(s) ==
    IF s # <<>> /\ s[Len(s)] = Backtick THEN SubSeq(s, 1, Len(s) - 1) ELSE s
EndsWith(s, literal) ==
    /\ Len(s) >= Len(literal)
    /\ SubSeq(s, Len(s) - Len(literal) + 1, Len(s)) = literal

\* what precedes a number puts it in a port context: the colon of a URL or
\* a bare colon, the bar of a table cell, the "=" of an assignment, a flag
\* that ends in "port"
PortContext(preceding) ==
    \/ EndsWith(preceding, <<":">>)
    \/ EndsWith(WithoutBlanks(WithoutBacktick(preceding)), <<"|">>)
    \/ EndsWith(WithoutBlanks(preceding), <<"=">>)
    \/ /\ WithoutBlanks(preceding) # preceding
       /\ EndsWith(WithoutBlanks(preceding), <<"-", "p", "o", "r", "t">>)

\* run n was left as it was, or it was the old port of a change in a port
\* context and is the new port now
RunRewrittenByChange(before, after, n, port_changes) ==
    \/ after[n] = before[n]
    \/ /\ n > 1
       /\ PortContext(before[n - 1])
       /\ \E c \in 1..Len(port_changes) :
             /\ port_changes[c][1] # port_changes[c][2]
             /\ before[n] = IntToText(port_changes[c][1])
             /\ after[n] = IntToText(port_changes[c][2])

OnlyOldPortsRewritten(before, after, port_changes) ==
    /\ Len(after) = Len(before)
    /\ \A n \in 1..Len(before) :
          RunRewrittenByChange(before, after, n, port_changes)

\* every change of the call leaves the port as it is
NoPortChanged(port_changes) ==
    \A c \in 1..Len(port_changes) : port_changes[c][1] = port_changes[c][2]

ReadmeRewrittenAsClaimed(readme, written, result) ==
    /\ result.updated = (written # readme)
    /\ readme = None => written = None
    /\ NoPortChanged(result.port_changes) => written = readme
    /\ readme # None
       => /\ written # None
          /\ OnlyOldPortsRewritten(RunsOf(readme, 1, <<>>),
                                   RunsOf(written, 1, <<>>),
                                   result.port_changes)

UpdateReadmeStep == report = NoReport /\ report'.op = "update_readme_ports"

\* C28: update_readme_ports for a change old->new rewrites only number
\* tokens that literally equal the old port and sit in a recognised port
\* context (localhost URL, table cell, key=value, --port flag, bare :NNNN);
\* every other number in the README is left unchanged, nothing is written
\* when old equals new, and nothing is created or raised when the service
\* has no README.
ReadmeOnlyOldPortsRewritten ==
    [][UpdateReadmeStep
       => /\ report'.outcome = "returned"
          /\ ReadmeRewrittenAsClaimed(docs["a"].readme, docs'["a"].readme,
                                      report'.results)]_vars

\* a call has rewritten the port of a URL and has left the same number
\* where it is no port, and the other port of the table
UrlRewrittenNumberKept ==
    /\ report.op = "update_readme_ports"
    /\ report.results.updated
    /\ report.results.port_changes = << <<8000, PortMin("api")>> >>
    /\ docs["a"].readme # None
    /\ Len(docs["a"].readme) = Len(UrlLine) + Len(PlainLine)
    /\ SubSeq(docs["a"].readme, 1, Len(UrlLine)) # UrlLine
    /\ SubSeq(docs["a"].readme, Len(UrlLine) + 1, Len(docs["a"].readme))
           = PlainLine

\* ------------------------------------------------------------------------
\* ServiceDiscovery._sanitize_id
\* ------------------------------------------------------------------------
UpperCase ==
    <<"A", "B", "C", "D", "E", "F", "G", "H", "I", "J", "K", "L", "M", "N",
      "O", "P", "Q", "R", "S", "T", "U", "V", "W", "X", "Y", "Z">>
LowerCase ==
    <<"a", "b", "c", "d", "e", "f", "g", "h", "i", "j", "k", "l", "m", "n",
      "o", "p", "q", "r", "s", "t", "u", "v", "w", "x", "y", "z">>

\* line 86: str.lower() on the characters of the model
ToLower(c) ==
    IF \E i \in 1..Len(UpperCase) : UpperCase[i] = c
    THEN LowerCase[CHOOSE i \in 1..Len(UpperCase) : UpperCase[i] = c]
    ELSE c
Lowered(name) == [i \in 1..Len(name) |-> ToLower(name[i])]

\* line 87: the characters of [a-z0-9_-] stay, any other becomes "_"
IsIdChar(c) ==
    \/ \E i \in 1..Len(LowerCase) : LowerCase[i] = c
    \/ IsDigit(c)
    \/ c \in {"_", "-"}
Replaced(name) ==
    [i \in 1..Len(name) |-> IF IsIdChar(name[i]) THEN name[i] ELSE "_"]

\* line 88: a run of "_" becomes one "_"
RECURSIVE Collapsed(_, _, _)
Collapsed(name, i, sanitized) ==
    IF Len(sanitized) > Len(name) \/ i > Len(name) THEN sanitized
    ELSE Collapsed(name, i + 1,
                   IF name[i] = "_" /\ i > 1 /\ name[i - 1] = "_"
                   THEN sanitized ELSE Append(sanitized, name[i]))

\* lines 85-90
SanitizeId(name) ==
    StripChars(Collapsed(Replaced(Lowered(name)), 1, <<>>), {"_", "-"})

\* ------------------------------------------------------------------------
\* The sanitizer on its own: any folder name of up to MaxNameLen characters
\* over a letter, a capital, a digit, the two separators and a blank
\* ------------------------------------------------------------------------
NameChars == {"a", "B", "1", "_", "-", " "}
FolderNames == UNION {[1..n -> NameChars] : n \in 1..MaxNameLen}

SanitizeName(name) ==
    /\ report = NoReport
    /\ report' = [op |-> "_sanitize_id", outcome |-> "returned",
                  results |-> [name |-> name, id |-> SanitizeId(name)]]
    /\ UNCHANGED <<services, fs, procs, call, loop, batch, scanner, captured,
                   docs>>

NextSanitize ==
    \/ \E name \in FolderNames : SanitizeName(name)
    \/ TakeReport

SpecSanitize == InitSearch /\ [][NextSanitize]_vars

\* ------------------------------------------------------------------------
\* C29: the sanitized id
\* ------------------------------------------------------------------------
Separators == {"_", "-"}

\* letters and digits
IsAlnum(c) == IsIdChar(ToLower(c)) /\ c \notin Separators

\* the hyphens of a name that have a letter or a digit on both sides
InnerHyphens(name) ==
    {i \in 1..Len(name) :
        /\ name[i] = "-"
        /\ \E j \in 1..(i - 1) : IsAlnum(name[j])
        /\ \E j \in (i + 1)..Len(name) : IsAlnum(name[j])}

WellFormedId(name, id) ==
    /\ \A i \in 1..Len(id) : IsIdChar(id[i])
    /\ \A i \in 1..(Len(id) - 1) :
          ~(id[i] \in Separators /\ id[i + 1] = id[i])
    /\ id # <<>> => id[1] \notin Separators /\ id[Len(id)] \notin Separators
    /\ Cardinality({i \in 1..Len(id) : id[i] = "-"})
           = Cardinality(InnerHyphens(name))

\* C29: for every folder name, the sanitized id contains only characters
\* from [a-z0-9_-], contains no run of two or more consecutive repeated
\* separator characters, and neither begins nor ends with '_' or '-';
\* hyphens inside the name are preserved.
SanitizedIdWellFormed ==
    report.op = "_sanitize_id"
        => WellFormedId(report.results.name, report.results.id)

\* ------------------------------------------------------------------------
\* ServiceDiscovery.scan over folders with names: two that sanitize to
\* my_svc, two that sanitize to x, and one more that _scan_folder skips
\* ------------------------------------------------------------------------
FolderMySvc == <<"M", "y", " ", "S", "v", "c">>
FolderMy_svc == <<"m", "y", "_", "s", "v", "c">>
FolderX == <<"X">>
FolderXHyphen == <<"x", "-">>
FolderHidden == <<"_", "x">>
ScanNames == {FolderMySvc, FolderMy_svc, FolderX,
              FolderXHyphen, FolderHidden}

\* the manifest of each folder that is a service
ManifestOfName(name) ==
    IF name \in {FolderMySvc, FolderXHyphen} THEN "web"
    ELSE IF name \in {FolderMy_svc, FolderHidden} THEN "train"
    ELSE "panel"

\* _scan_folder, lines 50-51: an entry whose name starts with "." or "_"
IsHiddenName(name) == name # <<>> /\ Head(name) \in {".", "_"}

\* an entry of the registry: the Service, with its id and its path
Discovery(name, folder) ==
    [id |-> SanitizeId(name), path |-> name, service |-> CreateService(folder)]

\* a registry that keeps the service it has for an id
RegisteredFirst(registry, found) ==
    IF \E n \in 1..Len(registry) : registry[n].id = found.id
    THEN registry
    ELSE Append(registry, found)

\* self._services[service.id] = service: the dict has one value per key, a
\* new value takes the place of the old one
Registered(registry, found) ==
    IF \E n \in 1..Len(registry) : registry[n].id = found.id
    THEN [n \in 1..Len(registry) |->
             IF registry[n].id = found.id THEN found ELSE registry[n]]
    ELSE Append(registry, found)

\* lines 34-39 for a configured folder (listed), lines 46-56 for an entry of
\* a configured folder that is no service itself; a configured folder that
\* is no service has no entries in the model
ScanEntry(registry, name, folder, listed) ==
    IF ~listed /\ IsHiddenName(name) THEN registry
    ELSE IF IsValidService(folder)
    THEN Registered(registry, Discovery(name, folder))
    ELSE registry

\* the loop over the folders in the order they are met
RECURSIVE ScanEntries(_, _, _, _, _)
ScanEntries(order, n, registry, folders, listed) ==
    IF Len(registry) > Len(order) \/ n > Len(order) THEN registry
    ELSE ScanEntries(order, n + 1,
                     ScanEntry(registry, order[n], folders[order[n]], listed),
                     folders, listed)

\* the registry after the scan and what scan returns (line 41)
ScanLeaves(registry, order, listed) ==
    /\ services' = [id \in {registry[n].id : n \in 1..Len(registry)} |->
                       registry[CHOOSE n \in 1..Len(registry) :
                                    registry[n].id = id].service]
    /\ report' = [op |-> "scan", outcome |-> "returned",
                  results |->
                      [order |-> order, listed |-> listed,
                       services |->
                           [n \in 1..Len(registry) |->
                               [id |-> registry[n].id,
                                path |-> registry[n].path]]]]

\* ServiceDiscovery.scan when the folders are met in the given order, as
\* the configured folders themselves (listed) or as the entries of one
\* configured folder
ScanFolders(order, listed) ==
    /\ loop = "free" /\ ~Pending
    /\ scanner.pc = "idle"
    /\ report = NoReport
    /\ ScanLeaves(ScanEntries(order, 1, <<>>, fs, listed), order, listed)
    /\ procs' = Collected(Orphaned(procs), services')
    /\ captured' = [id \in DOMAIN captured |-> 0]
    /\ UNCHANGED <<fs, call, loop, batch, scanner, docs>>

\* the orders in which the folders can be met
ScanOrders ==
    {order \in [1..Cardinality(ScanNames) -> ScanNames] :
        \A m, n \in DOMAIN order : m # n => order[m] # order[n]}

\* every folder is a service with its manifest, or an empty folder
InitFolders ==
    /\ services = [id \in {} |-> Service(DISCOVERED, None)]
    /\ fs \in [ScanNames -> [entry : BOOLEAN, manifest : Manifests,
                             env : {NoEnvFile}]]
    /\ \A name \in ScanNames :
          fs[name].manifest
              = IF fs[name].entry THEN ManifestOfName(name) ELSE "absent"
    /\ procs = <<>>
    /\ call = [id \in {} |-> IdleCall]
    /\ loop = "free"
    /\ batch = NoBatch
    /\ scanner = NoScanner
    /\ captured = [id \in {} |-> 0]
    /\ docs = [name \in ScanNames |-> NoDocs]
    /\ report = NoReport

NextFolders ==
    \/ \E order \in ScanOrders, listed \in BOOLEAN : ScanFolders(order, listed)
    \/ TakeReport

SpecFolders == InitFolders /\ [][NextFolders]_vars

\* ------------------------------------------------------------------------
\* C30: the ids of the registry
\* ------------------------------------------------------------------------
\* the positions of the order at which scan discovers a service
DiscoveredAt(order, listed) ==
    {n \in 1..Len(order) :
        /\ IsValidService(fs[order[n]])
        /\ listed \/ ~IsHiddenName(order[n])}

\* the folder discovered last among those that sanitize to the id
LastWithId(order, discovered, id) ==
    order[CHOOSE n \in discovered :
              /\ SanitizeId(order[n]) = id
              /\ \A m \in discovered :
                    SanitizeId(order[m]) = id => m <= n]

RegistryOfLastFolders(returned, order, discovered) ==
    /\ \A m, n \in 1..Len(returned) : m # n => returned[m].id # returned[n].id
    /\ DOMAIN services = {returned[n].id : n \in 1..Len(returned)}
    /\ {returned[n].id : n \in 1..Len(returned)}
           = {SanitizeId(order[n]) : n \in discovered}
    /\ \A n \in 1..Len(returned) :
          /\ returned[n].id = SanitizeId(returned[n].path)
          /\ returned[n].path = LastWithId(order, discovered, returned[n].id)
          /\ services[returned[n].id].capability
                 = CreateService(fs[returned[n].path]).capability

\* C30: after scan(), registry ids are pairwise distinct and each equals the
\* sanitized name of its folder; when several discovered folders sanitize
\* to the same id, the registry holds exactly one entry for that id and it
\* is the folder discovered last.
RegistryIdsDistinctLastWins ==
    report.op = "scan"
        => RegistryOfLastFolders(report.results.services,
                                 report.results.order,
                                 DiscoveredAt(report.results.order,
                                              report.results.listed))

\* a scan has discovered two folders with the same id, and a third one
CollidingFoldersScanned ==
    /\ report.op = "scan"
    /\ Len(report.results.services) = 2
    /\ \E m, n \in DiscoveredAt(report.results.order, report.results.listed) :
          /\ m < n
          /\ SanitizeId(report.results.order[m])
                 = SanitizeId(report.results.order[n])

\* ------------------------------------------------------------------------
\* ServiceDiscovery.scan called twice on the same folders: names that
\* collide on one id and one more, with any manifest (none, malformed,
\* loadable)
\* ------------------------------------------------------------------------
RescanNames == {FolderX, FolderXHyphen, FolderMy_svc}

\* the orders in which the folders can be met
RescanOrders ==
    {order \in [1..Cardinality(RescanNames) -> RescanNames] :
        \A m, n \in DOMAIN order : m # n => order[m] # order[n]}

\* a directory that lists its entries the other way round the second time
IterdirReversed(order) ==
    [n \in 1..Len(order) |-> order[Len(order) + 1 - n]]

\* folder.iterdir() and config.service_folders (lines 24 and 44) on folders
\* nothing has changed: the entries come in the order they came before
Iterdir(order) == order

\* the dict a scan has filled, as a function of its keys
RegistryOf(registry) ==
    [id \in {registry[n].id : n \in 1..Len(registry)} |->
        registry[CHOOSE n \in 1..Len(registry) : registry[n].id = id].service]

\* the registry after the second scan; the report keeps the registry the
\* first scan left
RescanLeaves(registry, first, order, listed) ==
    /\ services' = RegistryOf(registry)
    /\ report' = [op |-> "scan_twice", outcome |-> "returned",
                  results |-> [first |-> first, order |-> order,
                               listed |-> listed]]

\* scan() called again right after a scan, lines 21-41
ScanAgain ==
    /\ loop = "free" /\ ~Pending
    /\ scanner.pc = "idle"
    /\ report.op = "scan"
    /\ RescanLeaves(ScanEntries(Iterdir(report.results.order), 1, <<>>, fs,
                                report.results.listed),
                    services, report.results.order, report.results.listed)
    /\ procs' = Collected(Orphaned(procs), services')
    /\ captured' = [id \in DOMAIN captured |-> 0]
    /\ UNCHANGED <<fs, call, loop, batch, scanner, docs>>

InitRescan ==
    /\ services = [id \in {} |-> Service(DISCOVERED, None)]
    /\ fs \in [RescanNames -> [entry : BOOLEAN, manifest : Manifests,
                               env : {NoEnvFile}]]
    /\ \A name \in RescanNames :
          fs[name].manifest
              \in {ManifestOfName(name), "absent", "malformed"}
    /\ procs = <<>>
    /\ call = [id \in {} |-> IdleCall]
    /\ loop = "free"
    /\ batch = NoBatch
    /\ scanner = NoScanner
    /\ captured = [id \in {} |-> 0]
    /\ docs = [name \in RescanNames |-> NoDocs]
    /\ report = NoReport

NextRescan ==
    \/ \E order \in RescanOrders, listed \in BOOLEAN :
          ScanFolders(order, listed)
    \/ ScanAgain
    \/ TakeReport

SpecRescan == InitRescan /\ [][NextRescan]_vars

\* two registries with the same ids and, id by id, the same capability
SameIdsAndCapabilities(first, second) ==
    /\ DOMAIN first = DOMAIN second
    /\ \A id \in DOMAIN first :
          /\ first[id].capability = second[id].capability
          /\ (first[id].capability = None) = (second[id].capability = None)

NoHiddenFolderRegistered ==
    report.op = "scan"
        => \A n \in 1..Len(report.results.services) :
              ~IsHiddenName(report.results.services[n].path)

\* ------------------------------------------------------------------------
\* C33: refresh_service
\* ------------------------------------------------------------------------
\* what a refresh of a manifest that does not load leaves of the service
FailedRefreshOf(before, after) ==
    /\ after.status = ERROR
    /\ after.error # None
    /\ after.capability = before.capability
    /\ after.pid = before.pid
    /\ after.process = before.process
    /\ after.assigned_ports = before.assigned_ports
    /\ after.logs = before.logs

\* refresh_service reads the manifest as it is when it runs: as it was, or as
\* update_service_capability has just written it (lines 137-140)
RefreshAsClaimed(id, folder) ==
    IF folder.manifest = "malformed"
    THEN FailedRefreshOf(services[id], services'[id])
    ELSE folder.manifest \in CapNames
            => services'[id].capability = LoadCapability(folder)

\* a call of refresh_service, by the caller or by update_service_capability
RefreshStep(id) ==
    \/ RefreshService(id)
    \/ \E yaml \in CapNames \cup {"malformed"} :
          UpdateServiceCapability(id, yaml)

\* C33: refresh_service(id) on a manifest that fails to parse does not
\* raise, sets status to ERROR and records the message in error, and leaves
\* every other field of the service (capability, pid, process,
\* assigned_ports, logs) as it was; on a manifest that parses it replaces
\* the capability with the newly loaded one.
RefreshFailureKeepsService ==
    [][\A id \in Ids : RefreshStep(id) => RefreshAsClaimed(id, fs'[id])]_vars

\* a running service with a capability whose manifest no longer loads has
\* been refreshed
RunningServiceRefreshFailed ==
    \E id \in DOMAIN services :
        /\ fs[id].manifest = "malformed"
        /\ services[id].status = ERROR
        /\ services[id].error = "yaml"
        /\ services[id].capability # None
        /\ services[id].process # NoProc
        /\ procs[services[id].process].state = "alive"
        /\ services[id].assigned_ports # NoPorts

\* ------------------------------------------------------------------------
\* C34: update_service_capability with a manifest that does not load
\* ------------------------------------------------------------------------
\* C34: update_service_capability(id, yaml) with a malformed manifest
\* changes no state: the manifest file on disk and the service's
\* capability, status and error in the registry are as before the call.
MalformedUpdateChangesNothing ==
    [][\A id \in Ids :
          UpdateServiceCapability(id, "malformed")
              => /\ fs'[id].manifest = fs[id].manifest
                 /\ services'[id].capability = services[id].capability
                 /\ services'[id].status = services[id].status
                 /\ services'[id].error = services[id].error]_vars

\* ------------------------------------------------------------------------
\* ServiceDiscovery.add_service_folder on a fresh registry: a folder with
\* three subdirectories, or one of the subdirectories, or a path that does
\* not exist
\* ------------------------------------------------------------------------
FolderSvcs == <<"s", "v", "c", "s">>
FolderMissing == <<"n", "o">>
AddNames == {FolderSvcs, FolderX, FolderMy_svc, FolderHidden}

\* folder.iterdir(): the subdirectories of a folder
Entries(name) == IF name = FolderSvcs THEN AddNames \ {FolderSvcs} ELSE {}

\* the orders in which iterdir can list them
EntryOrders(name) ==
    {order \in [1..Cardinality(Entries(name)) -> Entries(name)] :
        \A m, n \in DOMAIN order : m # n => order[m] # order[n]}

\* a path string: the folder it names, and whether it is written as
\* Path.resolve() writes it
PathStrings ==
    [name : AddNames \cup {FolderMissing}, resolved : BOOLEAN]

\* str(folder.resolve())
Resolve(path) == [path EXCEPT !.resolved = TRUE]

\* lines 103-104: the string is looked up as given, its resolved form is
\* appended
AddedFolders(service_folders, folder_path) ==
    IF \E n \in 1..Len(service_folders) : service_folders[n] = folder_path
    THEN service_folders
    ELSE Append(service_folders, Resolve(folder_path))

\* the registry and the configuration after the call
AddLeaves(registry, folder_path, service_folders, order) ==
    /\ services' = RegistryOf(registry)
    /\ report' = [op |-> "add_service_folder", outcome |-> "returned",
                  results |-> [folder_path |-> folder_path,
                               service_folders |-> service_folders,
                               order |-> order]]

\* ServiceDiscovery.add_service_folder, lines 98-109, called with the
\* configuration holding service_folders
AddServiceFolder(folder_path, service_folders, order) ==
    /\ loop = "free" /\ ~Pending
    /\ scanner.pc = "idle"
    /\ report = NoReport
    /\ DOMAIN services = {}
    /\ IF folder_path.name \notin DOMAIN fs
       THEN /\ report' = [op |-> "add_service_folder", outcome |-> "raised",
                          results |-> [folder_path |-> folder_path,
                                       service_folders |-> service_folders,
                                       order |-> order]]
            /\ UNCHANGED services
       ELSE AddLeaves(ScanEntries(order, 1, <<>>, fs, FALSE), folder_path,
                      AddedFolders(service_folders, folder_path), order)
    /\ UNCHANGED <<fs, procs, call, loop, batch, scanner, captured, docs>>

\* the configuration before the call: empty, or as an earlier call for the
\* same folder has left it
ConfiguredBefore(folder_path) == {<<>>, <<Resolve(folder_path)>>}

InitAddFolder ==
    /\ services = [id \in {} |-> Service(DISCOVERED, None)]
    /\ fs \in [AddNames -> [entry : BOOLEAN, manifest : Manifests,
                            env : {NoEnvFile}]]
    /\ \A name \in AddNames :
          fs[name].manifest
              = IF fs[name].entry THEN ManifestOfName(name) ELSE "absent"
    /\ procs = <<>>
    /\ call = [id \in {} |-> IdleCall]
    /\ loop = "free"
    /\ batch = NoBatch
    /\ scanner = NoScanner
    /\ captured = [id \in {} |-> 0]
    /\ docs = [name \in AddNames |-> NoDocs]
    /\ report = NoReport

NextAddFolder ==
    \/ \E folder_path \in PathStrings :
          \E service_folders \in ConfiguredBefore(folder_path),
             order \in EntryOrders(folder_path.name) :
                AddServiceFolder(folder_path, service_folders, order)
    \/ TakeReport

SpecAddFolder == InitAddFolder /\ [][NextAddFolder]_vars

\* the folders scan() discovers from a configured folder: the folder when
\* it looks like a service, else its qualifying subdirectories
ScanWouldDiscover(name) ==
    IF IsValidService(fs[name]) THEN {name}
    ELSE {entry \in Entries(name) :
             ~IsHiddenName(entry) /\ IsValidService(fs[entry])}

FolderAddedAsClaimed(folder_path, service_folders) ==
    /\ Cardinality({n \in 1..Len(service_folders) :
                       Resolve(service_folders[n]) = Resolve(folder_path)})
           = 1
    /\ \A name \in ScanWouldDiscover(folder_path.name) :
          /\ SanitizeId(name) \in DOMAIN services
          /\ services[SanitizeId(name)].capability
                 = CreateService(fs[name]).capability

\* C35: after add_service_folder(p) succeeds for an existing directory p, p
\* is registered exactly once in the configured folders and the registry
\* contains every service that scan() would discover from p: p itself when
\* p looks like a service, otherwise each qualifying non-hidden immediate
\* subdirectory.
AddedFolderRegisteredAndScanned ==
    (report.op = "add_service_folder" /\ report.outcome = "returned")
        => FolderAddedAsClaimed(report.results.folder_path,
                                report.results.service_folders)

\* ------------------------------------------------------------------------
\* C36: READY and DISCOVERED
\* ------------------------------------------------------------------------
\* C36: in every reachable state a service with status READY has a loaded
\* capability and a service with status DISCOVERED has none, after any
\* sequence of scan, refresh_service, update_service_capability, start and
\* stop operations.
ReadyIffCapabilityLoaded ==
    \A id \in DOMAIN services :
        /\ services[id].status = READY => services[id].capability # None
        /\ services[id].status = DISCOVERED
              => services[id].capability = None

\* a service is READY with the capability of its manifest in a registry
\* rebuilt after a child was spawned
ReadyWithWrittenManifest ==
    \E id \in DOMAIN services :
        /\ services[id].status = READY
        /\ services[id].capability # None
        /\ fs[id].manifest = services[id].capability
        /\ procs # <<>>

\* ------------------------------------------------------------------------
\* ServiceManager.get_service_logs on a service with some captured lines
\* ------------------------------------------------------------------------
\* list[start:]: a negative start counts from the end, and a start beyond
\* either end is clamped to that end
SliceFrom(list, start) ==
    LET from == IF start < 0
                THEN (IF start + Len(list) < 0 THEN 0 ELSE start + Len(list))
                ELSE (IF start > Len(list) THEN Len(list) ELSE start)
    IN  SubSeq(list, from + 1, Len(list))

\* lines 317-321: what the call returns
ServiceLogs(svcs, service_id, lines) ==
    IF service_id \notin DOMAIN svcs THEN <<>>
    ELSE SliceFrom(svcs[service_id].logs, 0 - lines)

GetServiceLogs(service_id, lines) ==
    /\ report = NoReport
    /\ report' = [op |-> "get_service_logs", outcome |-> "returned",
                  results |-> [service_id |-> service_id, lines |-> lines,
                               logs |-> ServiceLogs(services, service_id,
                                                    lines),
                               before |-> services]]
    /\ UNCHANGED <<services, fs, procs, call, loop, batch, scanner, captured,
                   docs>>

\* one service whose buffer holds the lines 1..n captured so far
InitTail ==
    /\ \E n \in 0..MaxBuffered :
          /\ services = [id \in Ids |->
                [Service(READY, "web") EXCEPT !.logs = [i \in 1..n |-> i]]]
          /\ captured = [id \in Ids |-> n]
    /\ fs = [id \in Ids |->
                [entry |-> TRUE, manifest |-> "web", env |-> NoEnvFile]]
    /\ procs = <<>>
    /\ call = [id \in Ids |-> IdleCall]
    /\ loop = "free"
    /\ batch = NoBatch
    /\ scanner = NoScanner
    /\ docs = [id \in Ids |-> NoDocs]
    /\ report = NoReport

NextTail ==
    \/ \E service_id \in Ids \cup {"nonexistent"}, lines \in 0..MaxTail :
          GetServiceLogs(service_id, lines)
    \/ TakeReport

SpecTail == InitTail /\ [][NextTail]_vars

\* the last min(n, Len(list)) entries of a list, in their order
LastEntries(list, n) ==
    LET count == IF n < Len(list) THEN n ELSE Len(list)
    IN  [i \in 1..count |-> list[Len(list) - count + i]]

\* C37: get_service_logs(id, lines=N) returns the last min(N, len(logs))
\* entries of the service's log buffer in their original order for every
\* N >= 0 (so N = 0 returns no lines), returns an empty list for an unknown
\* id, and never modifies the buffer.
LogsTailReturned ==
    report.op = "get_service_logs"
        => /\ services = report.results.before
           /\ report.results.logs
                  = IF report.results.service_id \in DOMAIN services
                    THEN LastEntries(
                             services[report.results.service_id].logs,
                             report.results.lines)
                    ELSE <<>>

\* ------------------------------------------------------------------------
\* update_readme_ports with the changes of one service when the new port of
\* a change is the old port of another: resolve_all_conflicts moves the port
\* 8000 of a service to the first port of the api range and then the port
\* of its next key, whose default is that port, to another one
\* ------------------------------------------------------------------------
ChainedChanges ==
    { << <<8000, PortMin("api")>>, <<PortMin("api"), PortMin("ui")>> >>,
      << <<PortMin("api"), PortMin("ui")>>, <<8000, PortMin("api")>> >>,
      << <<8000, 8001>>, <<8001, PortMin("ui")>> >> }

NextChained ==
    \/ \E port_changes \in ChainedChanges : UpdateReadme(port_changes)
    \/ TakeReport

SpecChained == InitReadme /\ [][NextChained]_vars

\* a number of the README that is the old port of a change and has been
\* rewritten is the new port of that change
RunRewrittenByOwnChange(before, after, n, port_changes) ==
    \A c \in 1..Len(port_changes) :
        (/\ before[n] = IntToText(port_changes[c][1])
         /\ port_changes[c][1] # port_changes[c][2]
         /\ after[n] # before[n])
            => after[n] = IntToText(port_changes[c][2])

EachChangeAppliedToOriginal(before, after, port_changes) ==
    /\ Len(after) = Len(before)
    /\ \A n \in 1..Len(before) :
          RunRewrittenByOwnChange(before, after, n, port_changes)

\* C38: when update_readme_ports is given several port changes for one
\* service, every occurrence of an old port in the original README ends up
\* as the new port of that same change, even when the new port of one
\* change equals the old port of another change in the list (a port
\* already rewritten by one change is not rewritten again by a later one).
ChangesNotChained ==
    [][(UpdateReadmeStep /\ docs["a"].readme # None)
       => EachChangeAppliedToOriginal(RunsOf(docs["a"].readme, 1, <<>>),
                                      RunsOf(docs'["a"].readme, 1, <<>>),
                                      report'.results.port_changes)]_vars

\* ------------------------------------------------------------------------
\* C39: every live child can be reached
\* ------------------------------------------------------------------------
\* C39: in every reachable state, every child process that was spawned by
\* start_service and has not exited is the process handle of exactly one
\* Service in the current registry.
LiveChildHasOneService ==
    \A p \in 1..Len(procs) :
        ~Exited(p)
            => Cardinality({id \in DOMAIN services :
                               services[id].process = p}) = 1

\* ------------------------------------------------------------------------
\* Two services whose lifecycle operations are issued one at a time: an
\* operation begins only when no call on any service is in flight
\* ------------------------------------------------------------------------
NoCallInFlight == \A id \in DOMAIN call : CallerIdle(id)

StartAlone(id) == NoCallInFlight /\ StartService(id, NoPorts, GoodHost)
StartAutoPortsAlone(id, inuse) ==
    NoCallInFlight /\ StartServiceAutoPorts(id, inuse, GoodHost)
RestartAlone(id) == NoCallInFlight /\ RestartService(id, NoPorts, GoodHost)
StopAlone(id) == NoCallInFlight /\ StopService(id)

NextSerial ==
    \/ Scan
    \/ \E p \in 1..MaxSpawns, code \in {0, 1} : ChildExit(p, code)
    \/ \E id \in TwoIds : StartAlone(id)
    \/ \E id \in TwoIds, inuse \in ProbeResults :
          StartAutoPortsAlone(id, inuse)
    \/ \E id \in TwoIds : RestartAlone(id)
    \/ \E id \in TwoIds : RestartResume(id, GoodHost)
    \/ \E id \in TwoIds : StopAlone(id)
    \/ \E id \in TwoIds : ReadyPoll(id)
    \/ \E id \in TwoIds, response \in {"200", "503"} : ReadyGet(id, response)
    \/ \E id \in TwoIds : GraceCheck(id)
    \/ \E id \in TwoIds : TermWaitExit(id)
    \/ \E id \in TwoIds : TermWaitTimeout(id)
    \/ \E id \in TwoIds : KillWaitExit(id)
    \/ \E id \in TwoIds : KillWaitTimeout(id)
    \/ \E id \in TwoIds : Return(id)

SpecSerial == InitAuto /\ [][NextSerial]_vars

\* C40: in every reachable state, no two distinct services whose status is
\* STARTING or RUNNING hold the same port number in their assigned_ports,
\* after any sequence of start_service, start_service_auto_ports,
\* restart_service and stop_service operations issued one at a time.
ActiveServicesShareNoPort ==
    \A i \in DOMAIN services, j \in DOMAIN services :
        (/\ i # j
         /\ services[i].status \in {STARTING, RUNNING}
         /\ services[j].status \in {STARTING, RUNNING})
            => PortNumbers(services[i]) \cap PortNumbers(services[j]) = {}

====
